---- MODULE Spec2Model ----
(***************************************************************************)
(* Feature-flag rollout of the AdminWorkBench UI, the hook and wrapper     *)
(* that consume it, the deprecated client endpoints and the legacy route   *)
(* redirects of the admin application.                                     *)
(*                                                                         *)
(* JavaScript strings are sequences of one-character strings, so that      *)
(* split, trim, toUpperCase, parseInt and charCodeAt are computed as the   *)
(* code computes them.  undefined is the one-element tuple Undefined.      *)
(***************************************************************************)
EXTENDS Integers, Sequences, FiniteSets, TLC

(***************************************************************************)
(* JavaScript values                                                       *)
(***************************************************************************)
Undefined == <<"undefined">>

\* JavaScript truthiness of a string-or-undefined value
Truthy(v) == v # Undefined /\ v # <<>>

\* number values: an integer or NaN
NaN == [nan |-> TRUE, val |-> 0]
Num(n) == [nan |-> FALSE, val |-> n]

\* String.prototype.charCodeAt for the characters the inputs are made of
CharCode(c) ==
    CASE c = " " -> 32 [] c = "," -> 44 [] c = "-" -> 45
      [] c = "0" -> 48 [] c = "1" -> 49 [] c = "5" -> 53 [] c = "7" -> 55
      [] c = "A" -> 65 [] c = "B" -> 66 [] c = "C" -> 67 [] c = "D" -> 68
      [] c = "E" -> 69 [] c = "I" -> 73 [] c = "K" -> 75 [] c = "L" -> 76
      [] c = "M" -> 77 [] c = "N" -> 78 [] c = "R" -> 82 [] c = "S" -> 83
      [] c = "T" -> 84 [] c = "U" -> 85
      [] c = "a" -> 97 [] c = "b" -> 98 [] c = "c" -> 99 [] c = "d" -> 100
      [] c = "e" -> 101 [] c = "f" -> 102 [] c = "i" -> 105 [] c = "k" -> 107
      [] c = "l" -> 108 [] c = "m" -> 109 [] c = "n" -> 110 [] c = "r" -> 114
      [] c = "s" -> 115 [] c = "t" -> 116 [] c = "u" -> 117

\* String.prototype.toUpperCase, one character
UpperChar(c) ==
    CASE c = "a" -> "A" [] c = "b" -> "B" [] c = "c" -> "C" [] c = "d" -> "D"
      [] c = "e" -> "E" [] c = "f" -> "F" [] c = "i" -> "I" [] c = "k" -> "K"
      [] c = "l" -> "L" [] c = "m" -> "M" [] c = "n" -> "N" [] c = "r" -> "R"
      [] c = "s" -> "S" [] c = "t" -> "T" [] c = "u" -> "U"
      [] OTHER -> c

toUpperCase(s) == [i \in 1..Len(s) |-> UpperChar(s[i])]

RECURSIVE trimStart(_)
trimStart(s) == IF s # <<>> /\ Head(s) = " " THEN trimStart(Tail(s)) ELSE s

RECURSIVE trimEnd(_)
trimEnd(s) ==
    IF s # <<>> /\ s[Len(s)] = " " THEN trimEnd(SubSeq(s, 1, Len(s) - 1)) ELSE s

\* String.prototype.trim
trim(s) == trimEnd(trimStart(s))

\* String.prototype.includes(',')
includesComma(s) == \E i \in 1..Len(s) : s[i] = ","

\* Array.prototype.includes
includes(arr, v) == \E i \in 1..Len(arr) : arr[i] = v

\* String.prototype.split(','): the pieces between the commas, empty ones kept
RECURSIVE splitFrom(_, _)
splitFrom(s, cur) ==
    IF s = <<>> THEN <<cur>>
    ELSE IF Head(s) = "," THEN <<cur>> \o splitFrom(Tail(s), <<>>)
    ELSE splitFrom(Tail(s), Append(cur, Head(s)))

split(s) == splitFrom(s, <<>>)

\* Array.prototype.filter(Boolean) on an array of strings
RECURSIVE filterBoolean(_)
filterBoolean(arr) ==
    IF arr = <<>> THEN <<>>
    ELSE IF Head(arr) # <<>> THEN <<Head(arr)>> \o filterBoolean(Tail(arr))
    ELSE filterBoolean(Tail(arr))

IsDigit(c) == c \in {"0", "1", "5", "7"}
DigitVal(c) == CharCode(c) - 48

RECURSIVE parseDigits(_, _)
parseDigits(s, acc) ==
    IF s # <<>> /\ IsDigit(Head(s)) THEN parseDigits(Tail(s), acc * 10 + DigitVal(Head(s)))
    ELSE acc

\* parseInt(s, 10): leading white space skipped, an optional sign, then the
\* longest prefix of digits; NaN when there is no digit
parseInt(s) ==
    LET t == trimStart(s)
        neg == t # <<>> /\ Head(t) = "-"
        d == IF neg THEN Tail(t) ELSE t
    IN IF d = <<>> \/ ~IsDigit(Head(d)) THEN NaN
       ELSE Num(IF neg THEN 0 - parseDigits(d, 0) ELSE parseDigits(d, 0))

(***************************************************************************)
(* 32-bit integers.  A value is kept as its two 16-bit halves, the way the *)
(* bit operators of JavaScript see it (two's complement).                  *)
(***************************************************************************)
Word == 65536

Int32Zero == [hi |-> 0, lo |-> 0]

\* x << 5 on a 32-bit value
Shl5(x) ==
    LET l == x.lo * 32
    IN [hi |-> (x.hi * 32 + l \div Word) % Word, lo |-> l % Word]

\* x - y, wrapped to 32 bits
Sub32(x, y) ==
    LET l == x.lo - y.lo
        borrow == IF l < 0 THEN 1 ELSE 0
    IN [hi |-> (x.hi - y.hi - borrow) % Word, lo |-> l % Word]

\* x + c for a character code c, wrapped to 32 bits
AddChar32(x, c) ==
    LET l == x.lo + c
    IN [hi |-> (x.hi + l \div Word) % Word, lo |-> l % Word]

IsNegative32(x) == x.hi >= 32768

\* Math.abs(x) % 100 for a signed 32-bit x; Math.abs(-2^31) is 2^31
AbsMod100(x) ==
    LET u == ((x.hi % 100) * (Word % 100) + x.lo) % 100
    IN IF IsNegative32(x) THEN (96 - u) % 100 ELSE u

(***************************************************************************)
(* src/lib/admin/featureFlags.ts                                           *)
(***************************************************************************)
WORKBENCH_ENABLED == "NEXT_PUBLIC_ADMIN_WORKBENCH_ENABLED"
ROLLOUT_PERCENTAGE == "NEXT_PUBLIC_ADMIN_WORKBENCH_ROLLOUT_PERCENTAGE"
TARGET_USERS == "NEXT_PUBLIC_ADMIN_WORKBENCH_TARGET_USERS"
BETA_TESTERS == "NEXT_PUBLIC_ADMIN_WORKBENCH_BETA_TESTERS"

EnvKeys == {WORKBENCH_ENABLED, ROLLOUT_PERCENTAGE, TARGET_USERS, BETA_TESTERS}

\* An environment env has env.process (process.env) and env.window
\* (window.__ENV__), both functions from EnvKeys to a string or Undefined.
\* A missing process, a missing window or a missing __ENV__ object reads as
\* Undefined for every key.

\* the loop of hashUserId: hash = ((hash << 5) - hash) + char; hash = hash & hash
RECURSIVE hashLoop(_, _)
hashLoop(userId, hash) ==
    IF userId = <<>> THEN hash
    ELSE hashLoop(Tail(userId),
                  AddChar32(Sub32(Shl5(hash), hash), CharCode(Head(userId))))

\* hashUserId reading the 32-bit value as unsigned (hash >>> 0) in place of
\* Math.abs(hash)
hashUserId_Unsigned(userId) ==
    LET x == hashLoop(userId, Int32Zero)
    IN ((x.hi % 100) * (Word % 100) + x.lo) % 100

hashUserId(userId) == AbsMod100(hashLoop(userId, Int32Zero))

\* isAdminWorkBenchEnabled comparing the value without regard to letter case
isAdminWorkBenchEnabled_IgnoreCase(env) ==
    IF Truthy(env.process[WORKBENCH_ENABLED])
    THEN toUpperCase(env.process[WORKBENCH_ENABLED]) = <<"T", "R", "U", "E">>
    ELSE IF env.window[WORKBENCH_ENABLED] # Undefined
    THEN toUpperCase(env.window[WORKBENCH_ENABLED]) = <<"T", "R", "U", "E">>
    ELSE FALSE

isAdminWorkBenchEnabled(env) ==
    IF Truthy(env.process[WORKBENCH_ENABLED])
    THEN env.process[WORKBENCH_ENABLED] = <<"t", "r", "u", "e">>
    ELSE IF env.window[WORKBENCH_ENABLED] # Undefined
    THEN env.window[WORKBENCH_ENABLED] = <<"t", "r", "u", "e">>
    ELSE FALSE

getEnvironmentVariable(env, key, defaultValue) ==
    IF Truthy(env.process[key]) THEN env.process[key]
    ELSE IF env.window[key] # Undefined THEN env.window[key]
    ELSE defaultValue

\* targetUsers is a string ('all', 'beta') or an array of role names
TargetString(s) == [arr |-> <<>>, isArray |-> FALSE, str |-> s]
TargetArray(a) == [arr |-> a, isArray |-> TRUE, str |-> <<>>]

parseTargetUsers(targetUsersStr) ==
    IF targetUsersStr = <<"a", "l", "l">> \/ targetUsersStr = <<"b", "e", "t", "a">>
    THEN TargetString(targetUsersStr)
    ELSE IF targetUsersStr = <<"a", "d", "m", "i", "n", "s">>
    THEN TargetArray(<< <<"A", "D", "M", "I", "N">> >>)
    ELSE IF includesComma(targetUsersStr)
    THEN TargetArray([i \in 1..Len(split(targetUsersStr)) |->
                        toUpperCase(trim(split(targetUsersStr)[i]))])
    ELSE IF targetUsersStr # <<>> /\ targetUsersStr # <<"a", "l", "l">>
    THEN TargetArray(<<toUpperCase(targetUsersStr)>>)
    ELSE TargetString(<<"a", "l", "l">>)

getBetaTesterList(env) ==
    LET betaListEnv == getEnvironmentVariable(env, BETA_TESTERS, <<>>)
    IN IF betaListEnv = <<>> THEN <<>>
       ELSE filterBoolean([i \in 1..Len(split(betaListEnv)) |->
                             trim(split(betaListEnv)[i])])

getAdminWorkBenchFeatureFlagConfig(env) ==
    [enabled |-> isAdminWorkBenchEnabled(env),
     rolloutPercentage |->
        parseInt(getEnvironmentVariable(env, ROLLOUT_PERCENTAGE, <<"1", "0", "0">>)),
     targetUsers |-> parseTargetUsers(getEnvironmentVariable(env, TARGET_USERS, <<"a", "l", "l">>)),
     betaTesters |-> getBetaTesterList(env)]

\* config.rolloutPercentage < 100 with an unparsable percentage read as 0
rolloutBelow100_NaNIsZero(config) == config.rolloutPercentage.val < 100

\* config.rolloutPercentage < 100; a comparison with NaN is false
rolloutBelow100(config) ==
    ~config.rolloutPercentage.nan /\ config.rolloutPercentage.val < 100

\* The integers p of 0..100 for which the double (p / 100) * 100 is greater
\* than p (IEEE-754 rounding, e.g. (7 / 100) * 100 = 7.000000000000001); for
\* every other integer the product is p or just below p.
RoundsAbove == {7, 14, 28, 55, 56}

\* the threshold comparison turned round: the users below the threshold are
\* the ones stopped
atOrAboveThreshold_Inverted(hash, p) == hash % 100 < p

\* the threshold comparison written with > in place of >=
atOrAboveThreshold_Strict(hash, p) == hash % 100 > p

\* hash % 100 >= percentageThreshold, percentageThreshold = (p / 100) * 100
atOrAboveThreshold(hash, p) ==
    IF p \in RoundsAbove THEN hash % 100 > p ELSE hash % 100 >= p

\* targetRoles of isAdminWorkBenchEnabledForUser
targetRoles(config) ==
    IF config.targetUsers.isArray THEN config.targetUsers.arr
    ELSE <<config.targetUsers.str>>

\* the role check applied to role arrays only: 'beta' read as a keyword that,
\* like 'all', names no role
targetsNotAll_ArraysOnly(config) == config.targetUsers.isArray

\* config.targetUsers !== 'all'
targetsNotAll(config) ==
    ~(~config.targetUsers.isArray /\ config.targetUsers.str = <<"a", "l", "l">>)

\* the decision with the role check applied to a caller without a role too
decideForUser_RoleRequired(config, userId, userRole) ==
    IF /\ targetsNotAll(config)
       /\ ~includes(targetRoles(config), userRole)
    THEN FALSE
    ELSE IF /\ rolloutBelow100(config)
            /\ atOrAboveThreshold(hashUserId(userId), config.rolloutPercentage.val)
    THEN FALSE
    ELSE IF Len(config.betaTesters) > 0
    THEN includes(config.betaTesters, userId)
    ELSE TRUE

\* the role check, the percentage gate and the beta list, in the code's order
decideForUser(config, userId, userRole) ==
    IF /\ targetsNotAll(config)
       /\ Truthy(userRole)
       /\ ~includes(targetRoles(config), userRole)
    THEN FALSE
    ELSE IF /\ rolloutBelow100(config)
            /\ atOrAboveThreshold(hashUserId(userId), config.rolloutPercentage.val)
    THEN FALSE
    ELSE IF Len(config.betaTesters) > 0
    THEN includes(config.betaTesters, userId)
    ELSE TRUE

\* isAdminWorkBenchEnabledForUser without the global check
isAdminWorkBenchEnabledForUser_NoGlobalCheck(env, userId, userRole) ==
    decideForUser(getAdminWorkBenchFeatureFlagConfig(env), userId, userRole)

\* isAdminWorkBenchEnabledForUser without the role check
isAdminWorkBenchEnabledForUser_NoRoleCheck(env, userId, userRole) ==
    IF ~isAdminWorkBenchEnabled(env) THEN FALSE
    ELSE decideForUser(getAdminWorkBenchFeatureFlagConfig(env), userId, Undefined)

\* isAdminWorkBenchEnabledForUser with the beta list consulted before the
\* percentage gate, a listed user let through
isAdminWorkBenchEnabledForUser_BetaFirst(env, userId, userRole) ==
    IF ~isAdminWorkBenchEnabled(env) THEN FALSE
    ELSE
      LET config == getAdminWorkBenchFeatureFlagConfig(env)
      IN IF /\ targetsNotAll(config)
            /\ Truthy(userRole)
            /\ ~includes(targetRoles(config), userRole)
         THEN FALSE
         ELSE IF Len(config.betaTesters) > 0
         THEN includes(config.betaTesters, userId)
         ELSE ~(/\ rolloutBelow100(config)
                /\ atOrAboveThreshold(hashUserId(userId), config.rolloutPercentage.val))

isAdminWorkBenchEnabledForUser(env, userId, userRole) ==
    IF ~isAdminWorkBenchEnabled(env) THEN FALSE
    ELSE decideForUser(getAdminWorkBenchFeatureFlagConfig(env), userId, userRole)

(***************************************************************************)
(* hooks/useAdminWorkBenchFeature and ExecutiveDashboardTabWrapper         *)
(***************************************************************************)
\* useSession() data: session?.user?.id and session?.user?.role, Undefined
\* when there is no session (or no such field)
NoSession == [id |-> Undefined, role |-> Undefined]

\* the verdict with enabled taken from the global flag alone
computeVerdict_GlobalOnly(env, sess) ==
    LET globalEnabled == isAdminWorkBenchEnabled(env)
        userEnabled ==
            IF Truthy(sess.id) THEN isAdminWorkBenchEnabledForUser(env, sess.id, sess.role)
            ELSE FALSE
    IN [enabled |-> globalEnabled,
        config |-> getAdminWorkBenchFeatureFlagConfig(env),
        globalEnabled |-> globalEnabled,
        userEnabled |-> userEnabled]

\* the function handed to useMemo
computeVerdict(env, sess) ==
    LET globalEnabled == isAdminWorkBenchEnabled(env)
        userEnabled ==
            IF Truthy(sess.id) THEN isAdminWorkBenchEnabledForUser(env, sess.id, sess.role)
            ELSE FALSE
    IN [enabled |-> globalEnabled /\ userEnabled,
        config |-> getAdminWorkBenchFeatureFlagConfig(env),
        globalEnabled |-> globalEnabled,
        userEnabled |-> userEnabled]

\* the useMemo cell of one mounted component: nothing before the first render
NoMemo == [has |-> FALSE, deps |-> <<Undefined, Undefined>>]

\* useMemo with the dependency list ignored: the value is computed on every render
useMemo_EveryRender(env, sess, cell) ==
    [has |-> TRUE, deps |-> <<sess.id, sess.role>>, value |-> computeVerdict(env, sess)]

\* useMemo(..., [session?.user?.id, session?.user?.role]): the cell after the render
useMemo(env, sess, cell) ==
    IF cell.has /\ cell.deps = <<sess.id, sess.role>> THEN cell
    ELSE [has |-> TRUE, deps |-> <<sess.id, sess.role>>, value |-> computeVerdict(env, sess)]

\* the verdict useAdminWorkBenchFeature returns on a render
useAdminWorkBenchFeature(env, sess, cell) == useMemo(env, sess, cell).value

\* the wrapper switching on globalEnabled in place of enabled
ExecutiveDashboardTabWrapper_Global(verdict) ==
    IF verdict.globalEnabled THEN {"AdminWorkBench"} ELSE {"ExecutiveDashboardTab"}

\* the components ExecutiveDashboardTabWrapper renders for a verdict
ExecutiveDashboardTabWrapper(verdict) ==
    IF verdict.enabled THEN {"AdminWorkBench"} ELSE {"ExecutiveDashboardTab"}

\* the return values the wrapper's unit tests give the mocked hook
MockedVerdicts ==
    {[enabled |-> TRUE, globalEnabled |-> TRUE, userEnabled |-> TRUE],
     [enabled |-> FALSE, globalEnabled |-> FALSE, userEnabled |-> FALSE],
     [enabled |-> FALSE, globalEnabled |-> FALSE, userEnabled |-> TRUE],
     [enabled |-> FALSE, globalEnabled |-> TRUE, userEnabled |-> FALSE]}

(***************************************************************************)
(* app/api/admin/entities/clients/route.ts and [id]/route.ts               *)
(*                                                                         *)
(* A user record is [id, tenantId, role, name, email, createdAt]; the      *)
(* store keeps (tenantId, email) unique.  A request carries the tenant     *)
(* context ctx = [throws, permitted, tenantId]: throws says that           *)
(* requireTenantContext() throws, permitted is the answer of               *)
(* hasPermission(ctx.role, ...) for the permission the handler asks about. *)
(* failAt numbers the persistence call of the handler that throws, 0 for   *)
(* none.  A handler yields [response, users].                              *)
(***************************************************************************)
NoTenant == "undefined"
Missing == "undefined"

\* new Date(Date.now() + 90 * 24 * 60 * 60 * 1000).toUTCString()
SunsetValue == "Date.now() + 90 days"

NextResponse(status, body) == [status |-> status, body |-> body, headers |-> {}]

\* addDeprecationHeaders of clients/route.ts
addDeprecationHeaders(response) ==
    [response EXCEPT !.headers =
        {h \in @ : h[1] \notin {"Deprecation", "Sunset", "Link", "X-API-Warn"}} \cup
        {<<"Deprecation", "true">>,
         <<"Sunset", SunsetValue>>,
         <<"Link", "</api/admin/users?role=CLIENT>; rel=\"successor\"">>,
         <<"X-API-Warn", "This endpoint is deprecated. Please use /api/admin/users with role=CLIENT filter instead.">>}]

\* addDeprecationHeaders of clients/[id]/route.ts
addDeprecationHeadersId(response) ==
    [response EXCEPT !.headers =
        {h \in @ : h[1] \notin {"Deprecation", "Sunset", "Link", "X-API-Warn"}} \cup
        {<<"Deprecation", "true">>,
         <<"Sunset", SunsetValue>>,
         <<"Link", "</api/admin/users>; rel=\"successor\"">>,
         <<"X-API-Warn", "This endpoint is deprecated. Please use /api/admin/users instead.">>}]

ErrorBody(message) == [error |-> message]

\* select: { id, name, email, createdAt, ... }
Selected(u) == [id |-> u.id, name |-> u.name, email |-> u.email, createdAt |-> u.createdAt]

\* orderBy: { createdAt: 'desc' }
RECURSIVE orderByCreatedAtDesc(_)
orderByCreatedAtDesc(records) ==
    IF records = {} THEN <<>>
    ELSE LET newest == CHOOSE u \in records : \A v \in records : v.createdAt <= u.createdAt
         IN <<Selected(newest)>> \o orderByCreatedAtDesc(records \ {newest})

\* findFirst with the role condition of the where clause left out
findFirstClient_AnyRole(users, id, tenantId) ==
    {u \in users : u.id = id /\ u.tenantId = tenantId}

\* findFirst with the tenantId condition of the where clause left out
findFirstClient_AnyTenant(users, id, tenantId) ==
    {u \in users : u.id = id /\ u.role = "CLIENT"}

\* prisma.user.findFirst({ where: { id, role: 'CLIENT', tenantId } })
findFirstClient(users, id, tenantId) ==
    {u \in users : u.id = id /\ u.role = "CLIENT" /\ u.tenantId = tenantId}

\* findUnique looking among the records of role CLIENT only
findUniqueByEmail_ClientsOnly(users, tenantId, email) ==
    {u \in users : u.tenantId = tenantId /\ u.email = email /\ u.role = "CLIENT"}

\* prisma.user.findUnique({ where: { tenantId_email: { tenantId, email } } })
findUniqueByEmail(users, tenantId, email) ==
    {u \in users : u.tenantId = tenantId /\ u.email = email}

\* JavaScript truthiness of a body field
Given(field) == field # Missing /\ field # ""

\* GET /api/admin/entities/clients
GET_clients(users, ctx, failAt) ==
    IF ctx.throws
    THEN [response |-> NextResponse(500, ErrorBody("Failed to list clients")), users |-> users]
    ELSE IF ~ctx.permitted
    THEN [response |-> addDeprecationHeaders(NextResponse(401, ErrorBody("Unauthorized"))),
          users |-> users]
    ELSE IF ctx.tenantId = NoTenant
    THEN [response |-> addDeprecationHeaders(NextResponse(400, ErrorBody("Tenant context missing"))),
          users |-> users]
    ELSE IF failAt = 1
    THEN [response |-> NextResponse(500, ErrorBody("Failed to list clients")), users |-> users]
    ELSE [response |-> addDeprecationHeaders(NextResponse(200,
                [clients |-> orderByCreatedAtDesc(
                    {u \in users : u.role = "CLIENT" /\ u.tenantId = ctx.tenantId})])),
          users |-> users]

\* POST /api/admin/entities/clients; newId and now are the id and the
\* creation time the store gives a created record
POST_clients(users, ctx, body, failAt, newId, now) ==
    IF ctx.throws
    THEN [response |-> addDeprecationHeaders(NextResponse(500, ErrorBody("Failed to create client"))),
          users |-> users]
    ELSE IF ~ctx.permitted
    THEN [response |-> addDeprecationHeaders(NextResponse(401, ErrorBody("Unauthorized"))),
          users |-> users]
    ELSE IF ctx.tenantId = NoTenant
    THEN [response |-> addDeprecationHeaders(NextResponse(400, ErrorBody("Tenant context missing"))),
          users |-> users]
    ELSE IF ~Given(body.name) \/ ~Given(body.email)
    THEN [response |-> addDeprecationHeaders(NextResponse(400, ErrorBody("Name and email are required"))),
          users |-> users]
    ELSE IF failAt = 1
    THEN [response |-> addDeprecationHeaders(NextResponse(500, ErrorBody("Failed to create client"))),
          users |-> users]
    ELSE IF findUniqueByEmail(users, ctx.tenantId, body.email) # {}
    THEN [response |-> addDeprecationHeaders(NextResponse(409, ErrorBody("Email already exists"))),
          users |-> users]
    ELSE IF failAt = 2
    THEN [response |-> addDeprecationHeaders(NextResponse(500, ErrorBody("Failed to create client"))),
          users |-> users]
    ELSE LET client == [id |-> newId, role |-> "CLIENT", name |-> body.name,
                        email |-> body.email, createdAt |-> now, tenantId |-> ctx.tenantId]
         IN [response |-> addDeprecationHeaders(NextResponse(201, Selected(client))),
             users |-> users \cup {client}]

\* GET /api/admin/entities/clients/[id]
GET_client(users, ctx, id, failAt) ==
    IF ctx.throws
    THEN [response |-> NextResponse(500, ErrorBody("Failed to fetch client")), users |-> users]
    ELSE IF ~ctx.permitted
    THEN [response |-> addDeprecationHeadersId(NextResponse(401, ErrorBody("Unauthorized"))),
          users |-> users]
    ELSE IF ctx.tenantId = NoTenant
    THEN [response |-> addDeprecationHeadersId(NextResponse(400, ErrorBody("Tenant context missing"))),
          users |-> users]
    ELSE IF failAt = 1
    THEN [response |-> NextResponse(500, ErrorBody("Failed to fetch client")), users |-> users]
    ELSE IF findFirstClient(users, id, ctx.tenantId) = {}
    THEN [response |-> addDeprecationHeadersId(NextResponse(404, ErrorBody("Client not found"))),
          users |-> users]
    ELSE [response |-> addDeprecationHeadersId(NextResponse(200,
                Selected(CHOOSE u \in findFirstClient(users, id, ctx.tenantId) : TRUE))),
          users |-> users]

\* data: { ...(name && { name }), ...(email && { email }) } applied to a record
applyUpdate(u, body) ==
    [u EXCEPT !.name = IF Given(body.name) THEN body.name ELSE @,
              !.email = IF Given(body.email) THEN body.email ELSE @]

\* PATCH /api/admin/entities/clients/[id]
PATCH_client(users, ctx, id, body, failAt) ==
    IF ctx.throws
    THEN [response |-> addDeprecationHeadersId(NextResponse(500, ErrorBody("Failed to update client"))),
          users |-> users]
    ELSE IF ~ctx.permitted
    THEN [response |-> addDeprecationHeadersId(NextResponse(401, ErrorBody("Unauthorized"))),
          users |-> users]
    ELSE IF ctx.tenantId = NoTenant
    THEN [response |-> addDeprecationHeadersId(NextResponse(400, ErrorBody("Tenant context missing"))),
          users |-> users]
    ELSE IF failAt = 1
    THEN [response |-> addDeprecationHeadersId(NextResponse(500, ErrorBody("Failed to update client"))),
          users |-> users]
    ELSE IF findFirstClient(users, id, ctx.tenantId) = {}
    THEN [response |-> addDeprecationHeadersId(NextResponse(404, ErrorBody("Client not found"))),
          users |-> users]
    ELSE
      LET client == CHOOSE u \in findFirstClient(users, id, ctx.tenantId) : TRUE
          emailChanged == Given(body.email) /\ body.email # client.email
      IN IF emailChanged /\ failAt = 2
         THEN [response |-> addDeprecationHeadersId(NextResponse(500, ErrorBody("Failed to update client"))),
               users |-> users]
         ELSE IF emailChanged /\ findUniqueByEmail(users, ctx.tenantId, body.email) # {}
         THEN [response |-> addDeprecationHeadersId(NextResponse(409, ErrorBody("Email already in use"))),
               users |-> users]
         ELSE IF failAt = 3
         THEN [response |-> addDeprecationHeadersId(NextResponse(500, ErrorBody("Failed to update client"))),
               users |-> users]
         ELSE [response |-> addDeprecationHeadersId(NextResponse(200, Selected(applyUpdate(client, body)))),
               users |-> (users \ {client}) \cup {applyUpdate(client, body)}]

\* DELETE /api/admin/entities/clients/[id]
DELETE_client(users, ctx, id, failAt) ==
    IF ctx.throws
    THEN [response |-> addDeprecationHeadersId(NextResponse(500, ErrorBody("Failed to delete client"))),
          users |-> users]
    ELSE IF ~ctx.permitted
    THEN [response |-> addDeprecationHeadersId(NextResponse(401, ErrorBody("Unauthorized"))),
          users |-> users]
    ELSE IF ctx.tenantId = NoTenant
    THEN [response |-> addDeprecationHeadersId(NextResponse(400, ErrorBody("Tenant context missing"))),
          users |-> users]
    ELSE IF failAt = 1
    THEN [response |-> addDeprecationHeadersId(NextResponse(500, ErrorBody("Failed to delete client"))),
          users |-> users]
    ELSE IF findFirstClient(users, id, ctx.tenantId) = {}
    THEN [response |-> addDeprecationHeadersId(NextResponse(404, ErrorBody("Client not found"))),
          users |-> users]
    ELSE IF failAt = 2
    THEN [response |-> addDeprecationHeadersId(NextResponse(500, ErrorBody("Failed to delete client"))),
          users |-> users]
    ELSE [response |-> addDeprecationHeadersId(NextResponse(200, [success |-> TRUE])),
          users |-> {u \in users : u.id # id}]

(***************************************************************************)
(* POST and PATCH of the client endpoints, one await at a time             *)
(*                                                                         *)
(* A request in flight is [handler, ctx, id, body, pc, client, response]:  *)
(* pc names the persistence call the handler awaits next, client is what   *)
(* findFirst gave PATCH.  A step yields [req, users].  The store refuses   *)
(* (throws on) a create or update that would give two records the same     *)
(* (tenantId, email), and an update of a record that is gone.              *)
(***************************************************************************)
Idle == [handler |-> "none", pc |-> "idle"]

\* the response of a request that has not returned yet
Unanswered == NextResponse(0, [none |-> TRUE])

\* the response is returned: the request is done
Return(req, resp) == [req EXCEPT !.pc = "done", !.response = resp]

\* the unique constraint on (tenantId, email): another record holds the pair
violatesUnique(users, record) ==
    \E u \in users :
        u.id # record.id /\ u.tenantId = record.tenantId /\ u.email = record.email

\* POST up to its first persistence call: context, body, required fields
POST_begin(ctx, body) ==
    LET req == [id |-> 0, body |-> body, response |-> Unanswered, ctx |-> ctx,
                client |-> {}, handler |-> "POST clients", pc |-> "findUnique"]
    IN IF ~Given(body.name) \/ ~Given(body.email)
       THEN Return(req, addDeprecationHeaders(
                NextResponse(400, ErrorBody("Name and email are required"))))
       ELSE req

\* const existing = await prisma.user.findUnique(...); if (existing) 409
POST_findUnique(users, req) ==
    IF findUniqueByEmail(users, req.ctx.tenantId, req.body.email) # {}
    THEN [req |-> Return(req, addDeprecationHeaders(
                      NextResponse(409, ErrorBody("Email already exists")))),
          users |-> users]
    ELSE [users |-> users, req |-> [req EXCEPT !.pc = "create"]]

\* const client = await prisma.user.create(...); a refused create is caught
POST_create(users, req, newId, now) ==
    LET client == [id |-> newId, role |-> "CLIENT", name |-> req.body.name,
                   email |-> req.body.email, createdAt |-> now, tenantId |-> req.ctx.tenantId]
    IN IF violatesUnique(users, client)
       THEN [req |-> Return(req, addDeprecationHeaders(
                         NextResponse(500, ErrorBody("Failed to create client")))),
             users |-> users]
       ELSE [users |-> users \cup {client},
             req |-> Return(req, addDeprecationHeaders(NextResponse(201, Selected(client))))]

\* PATCH up to its first persistence call
PATCH_begin(ctx, id, body) ==
    [id |-> id, body |-> body, response |-> Unanswered, ctx |-> ctx,
     client |-> {}, handler |-> "PATCH client", pc |-> "findFirst"]

\* const client = await prisma.user.findFirst(...); if (!client) 404;
\* if (email && email !== client.email) the email is looked up next
PATCH_findFirst(users, req) ==
    LET found == findFirstClient(users, req.id, req.ctx.tenantId)
    IN IF found = {}
       THEN [req |-> Return(req, addDeprecationHeadersId(
                         NextResponse(404, ErrorBody("Client not found")))),
             users |-> users]
       ELSE LET client == CHOOSE u \in found : TRUE
            IN [req |-> [req EXCEPT !.client = found,
                                    !.pc = IF Given(req.body.email) /\ req.body.email # client.email
                                           THEN "findUnique" ELSE "update"],
                users |-> users]

\* const existing = await prisma.user.findUnique(...); if (existing) 409
PATCH_findUnique(users, req) ==
    IF findUniqueByEmail(users, req.ctx.tenantId, req.body.email) # {}
    THEN [req |-> Return(req, addDeprecationHeadersId(
                      NextResponse(409, ErrorBody("Email already in use")))),
          users |-> users]
    ELSE [users |-> users, req |-> [req EXCEPT !.pc = "update"]]

\* const updated = await prisma.user.update({ where: { id }, data });
\* a refused update is caught
PATCH_update(users, req) ==
    LET target == {u \in users : u.id = req.id}
    IN IF target = {}
       THEN [req |-> Return(req, addDeprecationHeadersId(
                         NextResponse(500, ErrorBody("Failed to update client")))),
             users |-> users]
       ELSE LET record == CHOOSE u \in target : TRUE
                updated == applyUpdate(record, req.body)
            IN IF violatesUnique(users, updated)
               THEN [req |-> Return(req, addDeprecationHeadersId(
                                 NextResponse(500, ErrorBody("Failed to update client")))),
                     users |-> users]
               ELSE [req |-> Return(req, addDeprecationHeadersId(
                                 NextResponse(200, Selected(updated)))),
                     users |-> (users \ {record}) \cup {updated}]

(***************************************************************************)
(* The legacy admin routes and the unified users page                      *)
(*                                                                         *)
(* A URL is [path, tab, role]: the path and the tab and role query         *)
(* parameters, "none" for a parameter the URL does not carry.              *)
(***************************************************************************)
Url(path, tab, role) == [role |-> role, path |-> path, tab |-> tab]

LegacyPaths == {"/admin/permissions", "/admin/roles", "/admin/clients", "/admin/team"}

\* the rule table with /admin/team sent on to the clients route
RedirectRule_Chained(path) ==
    CASE path = "/admin/permissions" -> Url("/admin/users", "rbac", "none")
      [] path = "/admin/roles" -> Url("/admin/users", "rbac", "none")
      [] path = "/admin/clients" -> Url("/admin/users", "dashboard", "CLIENT")
      [] path = "/admin/team" -> Url("/admin/clients", "none", "none")

\* the fixed rule table: the destination of a legacy path
RedirectRule(path) ==
    CASE path = "/admin/permissions" -> Url("/admin/users", "rbac", "none")
      [] path = "/admin/roles" -> Url("/admin/users", "rbac", "none")
      [] path = "/admin/clients" -> Url("/admin/users", "dashboard", "CLIENT")
      [] path = "/admin/team" -> Url("/admin/users", "dashboard", "TEAM_MEMBER")

\* the tabs of the unified users page
Tabs == {"dashboard", "entities", "rbac"}
RoleFilters == {"CLIENT", "TEAM_MEMBER", "ADMIN"}

\* the tab the unified page selects when it loads at a URL
TabOnLoad(url) == IF url.tab \in Tabs THEN url.tab ELSE "dashboard"

\* the role filter the unified page applies when it loads at a URL
RoleFilterOnLoad(url) == IF url.role \in RoleFilters THEN url.role ELSE "none"

(***************************************************************************)
(* The session-based and tenant-context route handlers                     *)
(*                                                                         *)
(* A request req carries                                                   *)
(*   session  what getServerSession(authOptions) resolves to,              *)
(*   ctx      what requireTenantContext() returns: [userId, tenantId],     *)
(*   id       params.id,                                                   *)
(*   body     the text of the request body: NotJson, or the JSON object    *)
(*            as a function from field names to JSON values,               *)
(*   found    whether the service finds the record asked for,              *)
(*   fail     the operation of the handler that throws, "none" for none.   *)
(* A handler yields [response, ops, log, presets]: ops lists the           *)
(* persistence and service operations it started, in order; log is what    *)
(* it wrote to the server log.                                             *)
(***************************************************************************)
\* JSON values, as far as the schemas tell them apart
JUndefined == [t |-> "undefined"]
JString(v, len) == [v |-> v, t |-> "string", len |-> len]
JNumber(n) == [n |-> n, t |-> "number"]
JBoolean(b) == [t |-> "boolean", b |-> b]

\* a body whose text is not JSON: request.json() rejects with a SyntaxError
NotJson == [t |-> "not json"]
SyntaxErrorMessage == "Unexpected token in JSON"

\* getServerSession(): null, a session without user, a session with user
NullSession == [id |-> "undefined", tenantId |-> "undefined", present |-> FALSE, user |-> FALSE]
SessionWithoutUser == [id |-> "undefined", tenantId |-> "undefined", present |-> TRUE, user |-> FALSE]
SessionOf(id, tenantId) == [id |-> id, tenantId |-> tenantId, present |-> TRUE, user |-> TRUE]

\* !session?.user
NoSessionUser(sess) == ~sess.present \/ ~sess.user

\* the error an operation throws; its message names the operation
ErrorOf(op) == [message |-> "error thrown by " \o op]

\* NextResponse.json(body, { status }) and what the handler did besides
Outcome(status, body, ops, log, presets) ==
    [response |-> [status |-> status, body |-> body, headers |-> {}],
     ops |-> ops, log |-> log, presets |-> presets]

\* z.string().min(lo).max(hi)
zString(value, lo, hi) == value.t = "string" /\ value.len >= lo /\ value.len <= hi

\* z.enum(members)
zEnum(value, members) == value.t = "string" /\ value.v \in members

\* schema.optional()
zOptional(value, ok) == value.t = "undefined" \/ ok

TicketCategories ==
    {"GENERAL", "TECHNICAL", "BILLING", "ACCOUNT", "FEATURE_REQUEST", "BUG_REPORT",
     "COMPLIANCE", "TAX", "OTHER"}
TicketPriorities == {"LOW", "MEDIUM", "HIGH", "URGENT", "CRITICAL"}
TicketStatuses ==
    {"OPEN", "IN_PROGRESS", "WAITING_ON_CUSTOMER", "WAITING_ON_SUPPORT", "RESOLVED",
     "CLOSED", "CANCELLED"}

\* the fields of the bodies of the requests; a body is a function on them,
\* JUndefined for a field the object does not have
BodyFields ==
    {"text", "content", "title", "description", "category", "priority", "status",
     "name", "isPublic"}

\* sendMessageSchema.safeParse(body).success
sendMessageSchema(body) == zString(body["text"], 1, 5000)

\* addCommentSchema.safeParse(body).success
addCommentSchema(body) == zString(body["content"], 1, 5000)

\* createTicketSchema.safeParse(body).success
createTicketSchema(body) ==
    /\ zString(body["title"], 1, 200)
    /\ zString(body["description"], 0, 5000)
    /\ zEnum(body["category"], TicketCategories)
    /\ zEnum(body["priority"], TicketPriorities)

\* updateTicketSchema.safeParse(body).success
updateTicketSchema(body) ==
    /\ zOptional(body["title"], zString(body["title"], 1, 200))
    /\ zOptional(body["description"], zString(body["description"], 0, 5000))
    /\ zOptional(body["category"], zEnum(body["category"], TicketCategories))
    /\ zOptional(body["priority"], zEnum(body["priority"], TicketPriorities))
    /\ zOptional(body["status"], zEnum(body["status"], TicketStatuses))

\* schema.safeParse(body).success for the schema of that name
safeParse(schema, body) ==
    CASE schema = "sendMessageSchema" -> sendMessageSchema(body)
      [] schema = "addCommentSchema" -> addCommentSchema(body)
      [] schema = "createTicketSchema" -> createTicketSchema(body)
      [] schema = "updateTicketSchema" -> updateTicketSchema(body)

Unauthorized401(ops, presets) ==
    Outcome(401, [error |-> "Unauthorized", success |-> FALSE], ops, <<>>, presets)

\* catch (error: any) { console.error(label, error); return 500 with details: error.message }
CatchWithDetails(label, message, error, ops, presets) ==
    Outcome(500, [error |-> message, success |-> FALSE, details |-> error.message],
            ops, <<[error |-> error, label |-> label]>>, presets)

\* the 400 of a failed safeParse
ValidationError400(ops, presets) ==
    Outcome(400, [error |-> "Validation error", success |-> FALSE,
                  details |-> "validation.error.errors"], ops, <<>>, presets)

\* the shape the four validated handlers share: session, request.json(),
\* safeParse, one service call
ValidatedServiceCall(req, presets, schema, op, label, message, okMessage) ==
    IF req.fail = "getServerSession"
    THEN CatchWithDetails(label, message, ErrorOf("getServerSession"), <<>>, presets)
    ELSE IF NoSessionUser(req.session) THEN Unauthorized401(<<>>, presets)
    ELSE IF req.body = NotJson
    THEN CatchWithDetails(label, message, [message |-> SyntaxErrorMessage], <<>>, presets)
    ELSE IF ~safeParse(schema, req.body) THEN ValidationError400(<<>>, presets)
    ELSE IF req.fail = op
    THEN CatchWithDetails(label, message, ErrorOf(op), <<op>>, presets)
    ELSE Outcome(200, [message |-> okMessage, success |-> TRUE, data |-> op],
                 <<op>>, <<>>, presets)

\* POST /api/messages/[id]/messages
POST_message(req, presets) ==
    ValidatedServiceCall(req, presets, "sendMessageSchema", "MessagesService.sendMessage",
                         "Error sending message:", "Failed to send message",
                         "Message sent successfully")

\* POST /api/messages/tickets
POST_tickets(req, presets) ==
    ValidatedServiceCall(req, presets, "createTicketSchema", "TicketsService.createTicket",
                         "Error creating ticket:", "Failed to create ticket",
                         "Support ticket created successfully")

\* POST /api/messages/tickets/[id]/comments
POST_comment(req, presets) ==
    ValidatedServiceCall(req, presets, "addCommentSchema", "TicketsService.addComment",
                         "Error adding comment:", "Failed to add comment",
                         "Comment added successfully")

\* PATCH /api/messages/tickets/[id]
PATCH_ticket(req, presets) ==
    ValidatedServiceCall(req, presets, "updateTicketSchema", "TicketsService.updateTicket",
                         "Error updating ticket:", "Failed to update ticket",
                         "Ticket updated successfully")

\* GET /api/messages/tickets/[id]
GET_ticket(req, presets) ==
    LET op == "TicketsService.getTicketById"
        label == "Error fetching ticket:"
        message == "Failed to fetch ticket"
    IN IF req.fail = "getServerSession"
       THEN CatchWithDetails(label, message, ErrorOf("getServerSession"), <<>>, presets)
       ELSE IF NoSessionUser(req.session) THEN Unauthorized401(<<>>, presets)
       ELSE IF req.fail = op
       THEN CatchWithDetails(label, message, ErrorOf(op), <<op>>, presets)
       ELSE IF ~req.found
       THEN Outcome(404, [error |-> "Ticket not found", success |-> FALSE], <<op>>, <<>>, presets)
       ELSE Outcome(200, [success |-> TRUE, data |-> op], <<op>>, <<>>, presets)

\* the shape of the list and statistics handlers: session, then the service
\* calls services, all started before the first is awaited
SessionServiceCalls(req, presets, services, label, message) ==
    IF req.fail = "getServerSession"
    THEN CatchWithDetails(label, message, ErrorOf("getServerSession"), <<>>, presets)
    ELSE IF NoSessionUser(req.session) THEN Unauthorized401(<<>>, presets)
    ELSE IF \E i \in 1..Len(services) : req.fail = services[i]
    THEN CatchWithDetails(label, message, ErrorOf(req.fail), services, presets)
    ELSE Outcome(200, [success |-> TRUE, data |-> services], services, <<>>, presets)

\* GET /api/messages/tickets
GET_tickets(req, presets) ==
    SessionServiceCalls(req, presets, <<"TicketsService.getTickets">>,
                        "Error fetching tickets:", "Failed to fetch tickets")

\* GET /api/messages
GET_threads(req, presets) ==
    SessionServiceCalls(req, presets, <<"MessagesService.getThreads">>,
                        "Error fetching message threads:", "Failed to fetch message threads")

\* GET /api/messages/stats
GET_messagesStats(req, presets) ==
    SessionServiceCalls(req, presets, <<"MessagesService.getStats", "TicketsService.getStats">>,
                        "Error fetching messaging stats:",
                        "Failed to fetch messaging statistics")

\* GET /api/compliance: no persistence or service call, the items are fixed
GET_compliance(req, presets) ==
    IF req.fail = "getServerSession"
    THEN Outcome(500, [error |-> "Internal server error", success |-> FALSE], <<>>,
                 <<[error |-> ErrorOf("getServerSession"), label |-> "Compliance API error:"]>>,
                 presets)
    ELSE IF NoSessionUser(req.session) THEN Unauthorized401(<<>>, presets)
    ELSE Outcome(200, [success |-> TRUE, data |-> "complianceItems"], <<>>, <<>>, presets)

\* the shape of the two statistics handlers behind withTenantContext:
\* requireTenantContext(), the userId/tenantId check, one service call
TenantStats(req, presets, op, label) ==
    IF req.fail = "requireTenantContext"
    THEN Outcome(500, [error |-> "Internal server error"], <<>>,
                 <<[error |-> ErrorOf("requireTenantContext"), label |-> label]>>, presets)
    ELSE IF req.ctx.userId = "undefined" \/ req.ctx.tenantId = "undefined"
    THEN Outcome(401, [error |-> "Unauthorized"], <<>>, <<>>, presets)
    ELSE IF req.fail = op
    THEN Outcome(500, [error |-> "Internal server error"], <<op>>,
                 <<[error |-> ErrorOf(op), label |-> label]>>, presets)
    ELSE Outcome(200, [success |-> TRUE, data |-> op], <<op>>, <<>>, presets)

\* GET /api/approvals/stats
GET_approvalsStats(req, presets) ==
    TenantStats(req, presets, "approvalsService.getStats", "Error fetching approval stats")

\* GET /api/bills/stats
GET_billsStats(req, presets) ==
    TenantStats(req, presets, "billsService.getStats", "Error fetching bill stats")

\* catch (error) { console.error(label, error); return 500 { error: message } }
CatchGeneric(label, message, error, ops, presets) ==
    Outcome(500, [error |-> message], ops, <<[error |-> error, label |-> label]>>, presets)

\* prisma.filter_presets.findUnique({ where: { id } })
findUniquePreset(presets, id) == {p \in presets : p.id = id}

\* prisma.filter_presets.findFirst({ where: { tenantId, name, createdBy, NOT: { id } } })
findFirstPresetNamed(presets, tenantId, name, createdBy, id) ==
    {p \in presets : p.tenantId = tenantId /\ p.name = name /\ p.createdBy = createdBy /\ p.id # id}

\* GET /api/admin/filter-presets/[id]
GET_preset(req, presets) ==
    LET label == "Failed to fetch filter preset:"
        message == "Failed to fetch preset"
        op == "prisma.filter_presets.findUnique"
    IN IF req.fail = "getServerSession"
       THEN CatchGeneric(label, message, ErrorOf("getServerSession"), <<>>, presets)
       ELSE IF NoSessionUser(req.session)
       THEN Outcome(401, [error |-> "Unauthorized"], <<>>, <<>>, presets)
       ELSE IF req.fail = op THEN CatchGeneric(label, message, ErrorOf(op), <<op>>, presets)
       ELSE IF findUniquePreset(presets, req.id) = {}
       THEN Outcome(404, [error |-> "Preset not found"], <<op>>, <<>>, presets)
       ELSE LET preset == CHOOSE p \in findUniquePreset(presets, req.id) : TRUE
            IN IF ~preset.isPublic /\ preset.createdBy # req.session.id
               THEN Outcome(403, [error |-> "Forbidden"], <<op>>, <<>>, presets)
               ELSE Outcome(200, [success |-> TRUE, preset |-> preset], <<op>>, <<>>, presets)

\* updateData of PATCH applied to a preset: a field is written when the body
\* has it (!== undefined)
applyUpdateData(preset, body) ==
    [preset EXCEPT !.name = IF body["name"].t # "undefined" THEN body["name"].v ELSE @,
                   !.isPublic = IF body["isPublic"].t # "undefined" THEN body["isPublic"].b ELSE @]

\* PATCH /api/admin/filter-presets/[id]
PATCH_preset(req, presets) ==
    LET label == "Failed to update filter preset:"
        message == "Failed to update preset"
        find == "prisma.filter_presets.findUnique"
        findName == "prisma.filter_presets.findFirst"
        update == "prisma.filter_presets.update"
    IN IF req.fail = "getServerSession"
       THEN CatchGeneric(label, message, ErrorOf("getServerSession"), <<>>, presets)
       ELSE IF NoSessionUser(req.session)
       THEN Outcome(401, [error |-> "Unauthorized"], <<>>, <<>>, presets)
       ELSE IF req.fail = find THEN CatchGeneric(label, message, ErrorOf(find), <<find>>, presets)
       ELSE IF findUniquePreset(presets, req.id) = {}
       THEN Outcome(404, [error |-> "Preset not found"], <<find>>, <<>>, presets)
       ELSE
         LET preset == CHOOSE p \in findUniquePreset(presets, req.id) : TRUE
         IN IF preset.createdBy # req.session.id
            THEN Outcome(403, [error |-> "Forbidden"], <<find>>, <<>>, presets)
            ELSE IF req.body = NotJson
            THEN CatchGeneric(label, message, [message |-> SyntaxErrorMessage], <<find>>, presets)
            ELSE
              LET name == req.body["name"]
                  nameChanged == name.t = "string" /\ name.len > 0 /\ name.v # preset.name
                  ops == IF nameChanged THEN <<find, findName>> ELSE <<find>>
              IN IF nameChanged /\ req.fail = findName
                 THEN CatchGeneric(label, message, ErrorOf(findName), ops, presets)
                 ELSE IF /\ nameChanged
                         /\ findFirstPresetNamed(presets, preset.tenantId, name.v,
                                                 req.session.id, req.id) # {}
                 THEN Outcome(409, [error |-> "Another preset with this name already exists"],
                              ops, <<>>, presets)
                 ELSE IF req.fail = update
                 THEN CatchGeneric(label, message, ErrorOf(update), ops \o <<update>>, presets)
                 ELSE Outcome(200, [success |-> TRUE,
                                    preset |-> applyUpdateData(preset, req.body)],
                              ops \o <<update>>, <<>>,
                              (presets \ {preset}) \cup {applyUpdateData(preset, req.body)})

\* DELETE without the comparison of preset.createdBy with the session user
DELETE_preset_NoOwnerCheck(req, presets) ==
    LET label == "Failed to delete filter preset:"
        message == "Failed to delete preset"
        find == "prisma.filter_presets.findUnique"
        delete == "prisma.filter_presets.delete"
    IN IF req.fail = "getServerSession"
       THEN CatchGeneric(label, message, ErrorOf("getServerSession"), <<>>, presets)
       ELSE IF NoSessionUser(req.session)
       THEN Outcome(401, [error |-> "Unauthorized"], <<>>, <<>>, presets)
       ELSE IF req.fail = find THEN CatchGeneric(label, message, ErrorOf(find), <<find>>, presets)
       ELSE IF findUniquePreset(presets, req.id) = {}
       THEN Outcome(404, [error |-> "Preset not found"], <<find>>, <<>>, presets)
       ELSE
         LET preset == CHOOSE p \in findUniquePreset(presets, req.id) : TRUE
         IN IF req.fail = delete
            THEN CatchGeneric(label, message, ErrorOf(delete), <<find, delete>>, presets)
            ELSE Outcome(200, [message |-> "Preset deleted successfully", success |-> TRUE],
                         <<find, delete>>, <<>>, presets \ {preset})

\* DELETE /api/admin/filter-presets/[id]
DELETE_preset(req, presets) ==
    LET label == "Failed to delete filter preset:"
        message == "Failed to delete preset"
        find == "prisma.filter_presets.findUnique"
        delete == "prisma.filter_presets.delete"
    IN IF req.fail = "getServerSession"
       THEN CatchGeneric(label, message, ErrorOf("getServerSession"), <<>>, presets)
       ELSE IF NoSessionUser(req.session)
       THEN Outcome(401, [error |-> "Unauthorized"], <<>>, <<>>, presets)
       ELSE IF req.fail = find THEN CatchGeneric(label, message, ErrorOf(find), <<find>>, presets)
       ELSE IF findUniquePreset(presets, req.id) = {}
       THEN Outcome(404, [error |-> "Preset not found"], <<find>>, <<>>, presets)
       ELSE
         LET preset == CHOOSE p \in findUniquePreset(presets, req.id) : TRUE
         IN IF preset.createdBy # req.session.id
            THEN Outcome(403, [error |-> "Forbidden"], <<find>>, <<>>, presets)
            ELSE IF req.fail = delete
            THEN CatchGeneric(label, message, ErrorOf(delete), <<find, delete>>, presets)
            ELSE Outcome(200, [message |-> "Preset deleted successfully", success |-> TRUE],
                         <<find, delete>>, <<>>, presets \ {preset})

(***************************************************************************)
(* State                                                                   *)
(***************************************************************************)
VARIABLES
    processEnv,   \* process.env: EnvKeys -> string or Undefined
    windowEnv,    \* window.__ENV__: EnvKeys -> string or Undefined
    lastCall,     \* the last call of an exported function and what it returned
    session,      \* what useSession() gives the mounted wrapper
    memo,         \* the useMemo cell of useAdminWorkBenchFeature
    consumed,     \* the verdict the wrapper got on its last render
    rendered,     \* the components the wrapper rendered on its last render
    users,        \* the user records of the store
    clock,        \* the ids and creation times the store has given out
    request,      \* the last request to a client endpoint
    response,     \* the response its handler returned
    presets,      \* the filter presets of the store
    ops,          \* the persistence and service operations the last handler started
    log,          \* what the last handler wrote to the server log
    inflight,     \* the requests being handled concurrently, each at an await
    from,         \* the path the browser was last sent to (page.goto)
    location,     \* the URL the browser is at: [path, tab, role]
    pending,      \* the request for location has not been answered yet
    hops,         \* the redirects followed since the browser was sent to from
    selectedTab,  \* the tab selected on the unified users page, once loaded
    roleFilter    \* the role filter applied on the unified users page

vars == <<processEnv, windowEnv, lastCall, session, memo, consumed, rendered,
          users, clock, request, response, presets, ops, log, inflight,
          from, location, pending, hops, selectedTab, roleFilter>>
navVars == <<from, location, pending, hops, selectedTab, roleFilter>>
flagVars == <<processEnv, windowEnv, lastCall>>
uiVars == <<session, memo, consumed, rendered>>
apiVars == <<presets, ops, log, inflight>>
clientVars == <<users, clock, request, response, apiVars>>

\* the environment the functions read at the moment of a call
Env == [process |-> processEnv, window |-> windowEnv]

(***************************************************************************)
(* Inputs                                                                  *)
(***************************************************************************)
ProcessEnabledValues ==
    {Undefined, <<>>, <<"t", "r", "u", "e">>, <<"T", "R", "U", "E">>, <<"1">>,
     <<"f", "a", "l", "s", "e">>}
WindowEnabledValues == {Undefined, <<"t", "r", "u", "e">>, <<"f", "a", "l", "s", "e">>}

ProcessRolloutValues ==
    {Undefined, <<"0">>, <<"5", "0">>, <<"1", "0", "0">>, <<"7">>, <<"a", "b", "c">>}
WindowRolloutValues == {Undefined}

ProcessTargetValues ==
    {Undefined, <<"a", "l", "l">>, <<"b", "e", "t", "a">>,
     <<"a", "d", "m", "i", "n", "s">>, <<"c", "l", "i", "e", "n", "t">>,
     <<"a", "d", "m", "i", "n", ",", " ", "c", "l", "i", "e", "n", "t">>}
WindowTargetValues == {Undefined}

ProcessBetaValues == {Undefined, <<>>, <<"a">>, <<"a", ",", " ", "k", ",">>}
WindowBetaValues == {Undefined, <<"1">>}

ProcessEnvs ==
    {[k \in EnvKeys |->
        CASE k = WORKBENCH_ENABLED -> e
          [] k = ROLLOUT_PERCENTAGE -> r
          [] k = TARGET_USERS -> t
          [] k = BETA_TESTERS -> b] :
      e \in ProcessEnabledValues, r \in ProcessRolloutValues,
      t \in ProcessTargetValues, b \in ProcessBetaValues}

WindowEnvs ==
    {[k \in EnvKeys |->
        CASE k = WORKBENCH_ENABLED -> e
          [] k = ROLLOUT_PERCENTAGE -> r
          [] k = TARGET_USERS -> t
          [] k = BETA_TESTERS -> b] :
      e \in WindowEnabledValues, r \in WindowRolloutValues,
      t \in WindowTargetValues, b \in WindowBetaValues}

UserIds == {<<>>, <<"a">>, <<"k">>, <<"1">>}
UserRoles ==
    {Undefined, <<>>, <<"A", "D", "M", "I", "N">>, <<"C", "L", "I", "E", "N", "T">>,
     <<"b", "e", "t", "a">>}

NoCall == [fn |-> "none"]
NoVerdict == [none |-> TRUE]
NoRequest == [handler |-> "none"]
NoLocation == [role |-> "none", path |-> "none", tab |-> "none"]
NoResponse == [status |-> 0, body |-> [none |-> TRUE], headers |-> {}]

(***************************************************************************)
(* Calls of the exported functions of featureFlags.ts under a fixed        *)
(* environment                                                             *)
(***************************************************************************)
Init ==
    /\ processEnv \in ProcessEnvs
    /\ windowEnv \in WindowEnvs
    /\ lastCall = NoCall
    /\ session = NoSession
    /\ memo = NoMemo
    /\ consumed = NoVerdict
    /\ rendered = {}
    /\ users = {}
    /\ clock = 0
    /\ request = NoRequest
    /\ response = NoResponse
    /\ presets = {}
    /\ ops = <<>>
    /\ log = <<>>
    /\ inflight = <<>>
    /\ from = "none"
    /\ location = NoLocation
    /\ pending = FALSE
    /\ hops = 0
    /\ selectedTab = "none"
    /\ roleFilter = "none"

CallIsAdminWorkBenchEnabled ==
    /\ lastCall' = [fn |-> "isAdminWorkBenchEnabled",
                    result |-> isAdminWorkBenchEnabled(Env)]
    /\ UNCHANGED <<processEnv, windowEnv, uiVars, clientVars, navVars>>

CallIsAdminWorkBenchEnabledForUser ==
    \E userId \in UserIds, userRole \in UserRoles :
        /\ lastCall' = [userId |-> userId,
                        userRole |-> userRole, fn |-> "isAdminWorkBenchEnabledForUser",
                        result |-> isAdminWorkBenchEnabledForUser(Env, userId, userRole)]
        /\ UNCHANGED <<processEnv, windowEnv, uiVars, clientVars, navVars>>

CallGetAdminWorkBenchFeatureFlagConfig ==
    /\ lastCall' = [fn |-> "getAdminWorkBenchFeatureFlagConfig",
                    result |-> getAdminWorkBenchFeatureFlagConfig(Env)]
    /\ UNCHANGED <<processEnv, windowEnv, uiVars, clientVars, navVars>>

\* the default values the callers of getEnvironmentVariable pass
Defaults == {<<"1", "0", "0">>, <<>>}

CallGetEnvironmentVariable ==
    \E key \in EnvKeys, defaultValue \in Defaults :
        /\ lastCall' = [key |-> key,
                        defaultValue |-> defaultValue, fn |-> "getEnvironmentVariable",
                        result |-> getEnvironmentVariable(Env, key, defaultValue)]
        /\ UNCHANGED <<processEnv, windowEnv, uiVars, clientVars, navVars>>

Next ==
    \/ CallIsAdminWorkBenchEnabled
    \/ CallIsAdminWorkBenchEnabledForUser
    \/ CallGetAdminWorkBenchFeatureFlagConfig
    \/ CallGetEnvironmentVariable

Spec == Init /\ [][Next]_vars

(***************************************************************************)
(* The mounted wrapper: renders, session changes and environment changes   *)
(***************************************************************************)
HookProcessEnvs ==
    {[k \in EnvKeys |->
        CASE k = WORKBENCH_ENABLED -> e
          [] k = ROLLOUT_PERCENTAGE -> r
          [] k = TARGET_USERS -> t
          [] k = BETA_TESTERS -> b] :
      e \in {Undefined, <<"t", "r", "u", "e">>},
      r \in {Undefined, <<"5", "0">>},
      t \in {Undefined, <<"a", "d", "m", "i", "n", "s">>},
      b \in {Undefined, <<"a">>}}

HookWindowEnvs ==
    {[k \in EnvKeys |-> IF k = WORKBENCH_ENABLED THEN e ELSE Undefined] :
      e \in {Undefined, <<"t", "r", "u", "e">>}}

Sessions ==
    {NoSession} \cup
    {[id |-> i, role |-> r] :
        i \in {<<>>, <<"a">>, <<"1">>},
        r \in {Undefined, <<"A", "D", "M", "I", "N">>, <<"C", "L", "I", "E", "N", "T">>}}

HookInit ==
    /\ processEnv \in HookProcessEnvs
    /\ windowEnv \in HookWindowEnvs
    /\ lastCall = NoCall
    /\ session = NoSession
    /\ memo = NoMemo
    /\ consumed = NoVerdict
    /\ rendered = {}
    /\ users = {}
    /\ clock = 0
    /\ request = NoRequest
    /\ response = NoResponse
    /\ presets = {}
    /\ ops = <<>>
    /\ log = <<>>
    /\ inflight = <<>>
    /\ from = "none"
    /\ location = NoLocation
    /\ pending = FALSE
    /\ hops = 0
    /\ selectedTab = "none"
    /\ roleFilter = "none"

\* the deployment sets or clears a variable of process.env; no function has
\* been called under the new environment yet
SetProcessEnv ==
    \E e \in HookProcessEnvs :
        /\ \E k \in EnvKeys : \A j \in EnvKeys \ {k} : e[j] = processEnv[j]
        /\ e # processEnv
        /\ processEnv' = e
        /\ lastCall' = NoCall
        /\ UNCHANGED <<windowEnv, uiVars, clientVars, navVars>>

\* the page sets or clears a variable of window.__ENV__
SetWindowEnv ==
    \E e \in HookWindowEnvs :
        /\ e # windowEnv
        /\ windowEnv' = e
        /\ lastCall' = NoCall
        /\ UNCHANGED <<processEnv, uiVars, clientVars, navVars>>

\* sign-in, sign-out or a change of the signed-in user's data
SessionChange ==
    \E s \in Sessions :
        /\ s # session
        /\ session' = s
        /\ UNCHANGED <<flagVars, memo, consumed, rendered, clientVars, navVars>>

\* one render of ExecutiveDashboardTabWrapper
RenderWrapper ==
    /\ memo' = useMemo(Env, session, memo)
    /\ consumed' = useAdminWorkBenchFeature(Env, session, memo)
    /\ rendered' = ExecutiveDashboardTabWrapper(useAdminWorkBenchFeature(Env, session, memo))
    /\ lastCall' = [fn |-> "useAdminWorkBenchFeature"]
    /\ UNCHANGED <<processEnv, windowEnv, session, clientVars, navVars>>

\* one render of the wrapper in its unit tests, the hook mocked
RenderWrapperMocked ==
    \E verdict \in MockedVerdicts :
        /\ consumed' = verdict
        /\ rendered' = ExecutiveDashboardTabWrapper(verdict)
        /\ UNCHANGED <<flagVars, session, memo, clientVars, navVars>>

HookNext ==
    \/ SetProcessEnv
    \/ SetWindowEnv
    \/ SessionChange
    \/ RenderWrapper
    \/ RenderWrapperMocked

HookSpec == HookInit /\ [][HookNext]_vars

(***************************************************************************)
(* Requests to the deprecated client endpoints                             *)
(***************************************************************************)
MaxUsers == 3

Tenants == {"t1", "t2"}
UserIdsOfStore == 1..MaxUsers

\* the store a run starts from: an administrator of tenant t1 and a client of
\* tenant t2, made through the other endpoints
InitialStore ==
    {[id |-> 1, role |-> "ADMIN", name |-> "n1", email |-> "e1", createdAt |-> 1,
      tenantId |-> "t1"],
     [id |-> 2, role |-> "CLIENT", name |-> "n1", email |-> "e1", createdAt |-> 2,
      tenantId |-> "t2"]}

\* the tenant context of a request and the persistence call that fails, for a
\* handler that makes calls persistence calls
Conditions(calls) ==
    {[ctx |-> [tenantId |-> NoTenant, throws |-> TRUE, permitted |-> FALSE], failAt |-> 0],
     [ctx |-> [tenantId |-> "t1", throws |-> FALSE, permitted |-> FALSE], failAt |-> 0],
     [ctx |-> [tenantId |-> NoTenant, throws |-> FALSE, permitted |-> TRUE], failAt |-> 0],
     [ctx |-> [tenantId |-> "t2", throws |-> FALSE, permitted |-> TRUE], failAt |-> 0]} \cup
    {[ctx |-> [tenantId |-> "t1", throws |-> FALSE, permitted |-> TRUE], failAt |-> f] :
        f \in 0..calls}

\* the fields the handlers read of the parsed body; a body that is not JSON
\* parses to {} (req.json().catch(() => ({})))
Bodies == {[name |-> n, email |-> e] : n \in {Missing, "n2"}, e \in {Missing, "", "e1", "e2"}}

ClientInit ==
    /\ processEnv = [k \in EnvKeys |-> Undefined]
    /\ windowEnv = [k \in EnvKeys |-> Undefined]
    /\ lastCall = NoCall
    /\ session = NoSession
    /\ memo = NoMemo
    /\ consumed = NoVerdict
    /\ rendered = {}
    /\ users = InitialStore
    /\ clock = Cardinality(InitialStore)
    /\ request = NoRequest
    /\ response = NoResponse
    /\ presets = {}
    /\ ops = <<>>
    /\ log = <<>>
    /\ inflight = <<>>
    /\ from = "none"
    /\ location = NoLocation
    /\ pending = FALSE
    /\ hops = 0
    /\ selectedTab = "none"
    /\ roleFilter = "none"

ListClients ==
    \E c \in Conditions(1) :
        /\ request' = [ctx |-> c.ctx, failAt |-> c.failAt, handler |-> "GET clients"]
        /\ response' = GET_clients(users, c.ctx, c.failAt).response
        /\ users' = GET_clients(users, c.ctx, c.failAt).users
        /\ UNCHANGED <<clock, apiVars, flagVars, uiVars, navVars>>

CreateClient ==
    \E c \in Conditions(2), body \in Bodies :
        LET out == POST_clients(users, c.ctx, body, c.failAt, clock + 1, clock + 1)
        IN /\ out.users # users => clock < MaxUsers
           /\ request' = [body |-> body, ctx |-> c.ctx, failAt |-> c.failAt,
                          handler |-> "POST clients"]
           /\ response' = out.response
           /\ users' = out.users
           /\ clock' = IF out.users # users THEN clock + 1 ELSE clock
           /\ UNCHANGED <<apiVars, flagVars, uiVars, navVars>>

GetClient ==
    \E c \in Conditions(1), id \in UserIdsOfStore :
        /\ request' = [id |-> id, ctx |-> c.ctx, failAt |-> c.failAt, handler |-> "GET client"]
        /\ response' = GET_client(users, c.ctx, id, c.failAt).response
        /\ users' = GET_client(users, c.ctx, id, c.failAt).users
        /\ UNCHANGED <<clock, apiVars, flagVars, uiVars, navVars>>

UpdateClient ==
    \E c \in Conditions(3), id \in UserIdsOfStore, body \in Bodies :
        /\ request' = [id |-> id, body |-> body, ctx |-> c.ctx, failAt |-> c.failAt,
                       handler |-> "PATCH client"]
        /\ response' = PATCH_client(users, c.ctx, id, body, c.failAt).response
        /\ users' = PATCH_client(users, c.ctx, id, body, c.failAt).users
        /\ UNCHANGED <<clock, apiVars, flagVars, uiVars, navVars>>

DeleteClient ==
    \E c \in Conditions(2), id \in UserIdsOfStore :
        /\ request' = [id |-> id, ctx |-> c.ctx, failAt |-> c.failAt,
                       handler |-> "DELETE client"]
        /\ response' = DELETE_client(users, c.ctx, id, c.failAt).response
        /\ users' = DELETE_client(users, c.ctx, id, c.failAt).users
        /\ UNCHANGED <<clock, apiVars, flagVars, uiVars, navVars>>

ClientNext ==
    \/ ListClients
    \/ CreateClient
    \/ GetClient
    \/ UpdateClient
    \/ DeleteClient

ClientSpec == ClientInit /\ [][ClientNext]_vars

(***************************************************************************)
(* Concurrent POST and PATCH requests of one tenant                        *)
(***************************************************************************)
MaxRequests == 2

Requests == 1..MaxRequests

\* the store the concurrent requests start from: the initial store and a client
\* of tenant t1
RaceStore ==
    InitialStore \cup
    {[id |-> 3, role |-> "CLIENT", name |-> "n3", email |-> "e3", createdAt |-> 3,
      tenantId |-> "t1"]}

\* the tenant context of the concurrent requests
RaceContext == [tenantId |-> "t1", throws |-> FALSE, permitted |-> TRUE]

\* the bodies of the concurrent requests: e1 is held by a record of the
\* tenant, e2 is free
RaceBodies == {[name |-> "n2", email |-> e] : e \in {"e1", "e2"}}

RaceInit ==
    /\ processEnv = [k \in EnvKeys |-> Undefined]
    /\ windowEnv = [k \in EnvKeys |-> Undefined]
    /\ lastCall = NoCall
    /\ session = NoSession
    /\ memo = NoMemo
    /\ consumed = NoVerdict
    /\ rendered = {}
    /\ users = RaceStore
    /\ clock = Cardinality(RaceStore)
    /\ request = NoRequest
    /\ response = NoResponse
    /\ presets = {}
    /\ ops = <<>>
    /\ log = <<>>
    /\ inflight = [r \in Requests |-> Idle]
    /\ from = "none"
    /\ location = NoLocation
    /\ pending = FALSE
    /\ hops = 0
    /\ selectedTab = "none"
    /\ roleFilter = "none"

\* what a step of a request in flight leaves alone
RaceFrame == UNCHANGED <<request, response, presets, ops, log, flagVars, uiVars, navVars>>

\* a POST arrives
BeginPost ==
    \E r \in Requests, body \in RaceBodies :
        /\ inflight[r] = Idle
        /\ inflight' = [inflight EXCEPT ![r] = POST_begin(RaceContext, body)]
        /\ UNCHANGED <<users, clock>>
        /\ RaceFrame

\* a PATCH arrives, for the client of the store or the first one created
BeginPatch ==
    \E r \in Requests, id \in {3, 4}, body \in RaceBodies :
        /\ inflight[r] = Idle
        /\ inflight' = [inflight EXCEPT ![r] = PATCH_begin(RaceContext, id, body)]
        /\ UNCHANGED <<users, clock>>
        /\ RaceFrame

PostFindUnique ==
    \E r \in Requests :
        /\ inflight[r].handler = "POST clients"
        /\ inflight[r].pc = "findUnique"
        /\ inflight' = [inflight EXCEPT ![r] = POST_findUnique(users, inflight[r]).req]
        /\ UNCHANGED <<users, clock>>
        /\ RaceFrame

PostCreate ==
    \E r \in Requests :
        /\ inflight[r].handler = "POST clients"
        /\ inflight[r].pc = "create"
        /\ LET out == POST_create(users, inflight[r], clock + 1, clock + 1)
           IN /\ inflight' = [inflight EXCEPT ![r] = out.req]
              /\ users' = out.users
              /\ clock' = IF out.users # users THEN clock + 1 ELSE clock
        /\ RaceFrame

PatchFindFirst ==
    \E r \in Requests :
        /\ inflight[r].handler = "PATCH client"
        /\ inflight[r].pc = "findFirst"
        /\ inflight' = [inflight EXCEPT ![r] = PATCH_findFirst(users, inflight[r]).req]
        /\ UNCHANGED <<users, clock>>
        /\ RaceFrame

PatchFindUnique ==
    \E r \in Requests :
        /\ inflight[r].handler = "PATCH client"
        /\ inflight[r].pc = "findUnique"
        /\ inflight' = [inflight EXCEPT ![r] = PATCH_findUnique(users, inflight[r]).req]
        /\ UNCHANGED <<users, clock>>
        /\ RaceFrame

PatchUpdate ==
    \E r \in Requests :
        /\ inflight[r].handler = "PATCH client"
        /\ inflight[r].pc = "update"
        /\ LET out == PATCH_update(users, inflight[r])
           IN /\ inflight' = [inflight EXCEPT ![r] = out.req]
              /\ users' = out.users
        /\ UNCHANGED clock
        /\ RaceFrame

RaceNext ==
    \/ BeginPost
    \/ BeginPatch
    \/ PostFindUnique
    \/ PostCreate
    \/ PatchFindFirst
    \/ PatchFindUnique
    \/ PatchUpdate

RaceSpec == RaceInit /\ [][RaceNext]_vars

(***************************************************************************)
(* Navigation: the browser is sent to a path, the server answers with a    *)
(* redirect or the page, the user works the tabs of the unified page       *)
(***************************************************************************)
MaxHops == 3

EntryUrls ==
    {Url(p, "none", "none") : p \in LegacyPaths \cup {"/admin/users", "/admin"}} \cup
    {Url("/admin/users", "entities", "none"), Url("/admin/users", "rbac", "ADMIN")}

RedirectInit ==
    /\ processEnv = [k \in EnvKeys |-> Undefined]
    /\ windowEnv = [k \in EnvKeys |-> Undefined]
    /\ lastCall = NoCall
    /\ session = NoSession
    /\ memo = NoMemo
    /\ consumed = NoVerdict
    /\ rendered = {}
    /\ users = {}
    /\ clock = 0
    /\ request = NoRequest
    /\ response = NoResponse
    /\ presets = {}
    /\ ops = <<>>
    /\ log = <<>>
    /\ inflight = <<>>
    /\ from = "none"
    /\ location = NoLocation
    /\ pending = FALSE
    /\ hops = 0
    /\ selectedTab = "none"
    /\ roleFilter = "none"

\* page.goto(url)
Goto ==
    \E url \in EntryUrls :
        /\ from' = url.path
        /\ location' = url
        /\ pending' = TRUE
        /\ hops' = 0
        /\ UNCHANGED <<selectedTab, roleFilter, flagVars, uiVars, clientVars>>

\* the server answers a request for a legacy path with a redirect, which the
\* browser follows
Redirect ==
    /\ pending
    /\ location.path \in LegacyPaths
    /\ hops < MaxHops
    /\ location' = RedirectRule(location.path)
    /\ hops' = hops + 1
    /\ UNCHANGED <<from, pending, selectedTab, roleFilter, flagVars, uiVars, clientVars>>

\* the server answers a request for any other path with the page; the
\* unified users page selects its tab and role filter from the URL
LoadPage ==
    /\ pending
    /\ location.path \notin LegacyPaths
    /\ pending' = FALSE
    /\ selectedTab' = IF location.path = "/admin/users" THEN TabOnLoad(location) ELSE "none"
    /\ roleFilter' = IF location.path = "/admin/users" THEN RoleFilterOnLoad(location) ELSE "none"
    /\ UNCHANGED <<from, location, hops, flagVars, uiVars, clientVars>>

\* the user selects a tab of the loaded unified page
SelectTab ==
    \E t \in Tabs :
        /\ ~pending
        /\ location.path = "/admin/users"
        /\ t # selectedTab
        /\ selectedTab' = t
        /\ UNCHANGED <<from, location, pending, hops, roleFilter, flagVars, uiVars, clientVars>>

\* the user sets or clears the role filter of the loaded unified page
SetRoleFilter ==
    \E r \in RoleFilters \cup {"none"} :
        /\ ~pending
        /\ location.path = "/admin/users"
        /\ r # roleFilter
        /\ roleFilter' = r
        /\ UNCHANGED <<from, location, pending, hops, selectedTab, flagVars, uiVars, clientVars>>

RedirectNext ==
    \/ Goto
    \/ Redirect
    \/ LoadPage
    \/ SelectTab
    \/ SetRoleFilter

RedirectSpec == RedirectInit /\ [][RedirectNext]_vars

(***************************************************************************)
(* Requests to the session-based and tenant-context route handlers         *)
(***************************************************************************)
\* the JSON object with the given <<field, value>> pairs
Body(pairs) ==
    [f \in BodyFields |->
        IF \E p \in pairs : p[1] = f THEN (CHOOSE p \in pairs : p[1] = f)[2] ELSE JUndefined]

ApiSessions == {NullSession, SessionWithoutUser, SessionOf("u1", "t1"), SessionOf("u2", "t1")}

TenantContexts == {[userId |-> u, tenantId |-> t] : u \in {"undefined", "u1"}, t \in {"undefined", "t1"}}
NoContext == [userId |-> "undefined", tenantId |-> "undefined"]

PresetIds == {"p1", "p2", "p3"}

\* the presets a run starts from: a private and a public preset of user u1
InitialPresets ==
    {[id |-> "p1", name |-> "a", tenantId |-> "t1", createdBy |-> "u1", isPublic |-> FALSE],
     [id |-> "p2", name |-> "b", tenantId |-> "t1", createdBy |-> "u1", isPublic |-> TRUE]}

MessageBodies ==
    {NotJson, Body({}), Body({<<"text", JString("", 0)>>}), Body({<<"text", JNumber(5)>>}),
     Body({<<"text", JString("hello", 5)>>}), Body({<<"text", JString("long", 5001)>>})}

CommentBodies ==
    {NotJson, Body({}), Body({<<"content", JString("", 0)>>}),
     Body({<<"content", JString("hello", 5)>>})}

CreateTicketBodies ==
    {NotJson, Body({}),
     Body({<<"title", JString("t", 1)>>, <<"description", JString("", 0)>>,
           <<"category", JString("TAX", 3)>>, <<"priority", JString("LOW", 3)>>}),
     Body({<<"title", JString("t", 1)>>, <<"description", JString("", 0)>>,
           <<"category", JString("tax", 3)>>, <<"priority", JString("LOW", 3)>>})}

UpdateTicketBodies ==
    {NotJson, Body({}), Body({<<"status", JString("CLOSED", 6)>>}),
     Body({<<"status", JString("closed", 6)>>}), Body({<<"title", JString("", 0)>>})}

PresetBodies ==
    {NotJson, Body({}), Body({<<"name", JString("b", 1)>>}), Body({<<"name", JString("c", 1)>>}),
     Body({<<"isPublic", JBoolean(TRUE)>>})}

\* a request with the inputs its handler reads; the others are left at rest
Req(handler, sess, ctx, id, body, found, fail) ==
    [id |-> id, body |-> body, ctx |-> ctx, handler |-> handler, found |-> found,
     fail |-> fail, session |-> sess]

ApiInit ==
    /\ processEnv = [k \in EnvKeys |-> Undefined]
    /\ windowEnv = [k \in EnvKeys |-> Undefined]
    /\ lastCall = NoCall
    /\ session = NoSession
    /\ memo = NoMemo
    /\ consumed = NoVerdict
    /\ rendered = {}
    /\ users = {}
    /\ clock = 0
    /\ request = NoRequest
    /\ response = NoResponse
    /\ presets = InitialPresets
    /\ ops = <<>>
    /\ log = <<>>
    /\ inflight = <<>>
    /\ from = "none"
    /\ location = NoLocation
    /\ pending = FALSE
    /\ hops = 0
    /\ selectedTab = "none"
    /\ roleFilter = "none"

\* the sessions and failing operations of the requests to a handler whose
\* operations are failOps: every session without failure, every failure
\* for the signed-in user u1
SessionConditions(failOps) ==
    {[fail |-> "none", session |-> s] : s \in ApiSessions} \cup
    {[fail |-> f, session |-> SessionOf("u1", "t1")] : f \in failOps}

\* the tenant contexts and failing operations of the requests to a handler
\* behind withTenantContext: every context without failure, every failure
\* for the full context
TenantConditions(failOps) ==
    {[ctx |-> x, fail |-> "none"] : x \in TenantContexts} \cup
    {[ctx |-> [userId |-> "u1", tenantId |-> "t1"], fail |-> f] : f \in failOps}

\* the handler's outcome becomes the state
Responds(out) ==
    /\ response' = out.response
    /\ ops' = out.ops
    /\ log' = out.log
    /\ presets' = out.presets
    /\ UNCHANGED <<users, clock, inflight, flagVars, uiVars, navVars>>

SendMessage ==
    \E c \in SessionConditions({"getServerSession",
                                "MessagesService.sendMessage"}),
       body \in MessageBodies :
        LET req == Req("POST message", c.session, NoContext, "m1", body, TRUE, c.fail)
        IN /\ request' = req
           /\ Responds(POST_message(req, presets))

CreateTicket ==
    \E c \in SessionConditions({"getServerSession",
                                "TicketsService.createTicket"}),
       body \in CreateTicketBodies :
        LET req == Req("POST tickets", c.session, NoContext, "none", body, TRUE, c.fail)
        IN /\ request' = req
           /\ Responds(POST_tickets(req, presets))

AddComment ==
    \E c \in SessionConditions({"getServerSession",
                                "TicketsService.addComment"}),
       body \in CommentBodies :
        LET req == Req("POST comment", c.session, NoContext, "k1", body, TRUE, c.fail)
        IN /\ request' = req
           /\ Responds(POST_comment(req, presets))

UpdateTicket ==
    \E c \in SessionConditions({"getServerSession",
                                "TicketsService.updateTicket"}),
       body \in UpdateTicketBodies :
        LET req == Req("PATCH ticket", c.session, NoContext, "k1", body, TRUE, c.fail)
        IN /\ request' = req
           /\ Responds(PATCH_ticket(req, presets))

GetTicket ==
    \E c \in SessionConditions({"getServerSession",
                                "TicketsService.getTicketById"}),
       found \in BOOLEAN :
        LET req == Req("GET ticket", c.session, NoContext, "k1", Body({}), found, c.fail)
        IN /\ request' = req
           /\ Responds(GET_ticket(req, presets))

ListTickets ==
    \E c \in SessionConditions({"getServerSession",
                                "TicketsService.getTickets"}) :
        LET req == Req("GET tickets", c.session, NoContext, "none", Body({}), TRUE, c.fail)
        IN /\ request' = req
           /\ Responds(GET_tickets(req, presets))

ListThreads ==
    \E c \in SessionConditions({"getServerSession",
                                "MessagesService.getThreads"}) :
        LET req == Req("GET threads", c.session, NoContext, "none", Body({}), TRUE, c.fail)
        IN /\ request' = req
           /\ Responds(GET_threads(req, presets))

GetMessagesStats ==
    \E c \in SessionConditions({"getServerSession",
                                "MessagesService.getStats",
                                "TicketsService.getStats"}) :
        LET req == Req("GET messages stats", c.session, NoContext, "none", Body({}), TRUE, c.fail)
        IN /\ request' = req
           /\ Responds(GET_messagesStats(req, presets))

GetCompliance ==
    \E c \in SessionConditions({"getServerSession"}) :
        LET req == Req("GET compliance", c.session, NoContext, "none", Body({}), TRUE, c.fail)
        IN /\ request' = req
           /\ Responds(GET_compliance(req, presets))

GetApprovalsStats ==
    \E c \in TenantConditions({"requireTenantContext", "approvalsService.getStats"}) :
        LET req == Req("GET approvals stats", NullSession, c.ctx, "none", Body({}), TRUE, c.fail)
        IN /\ request' = req
           /\ Responds(GET_approvalsStats(req, presets))

GetBillsStats ==
    \E c \in TenantConditions({"requireTenantContext", "billsService.getStats"}) :
        LET req == Req("GET bills stats", NullSession, c.ctx, "none", Body({}), TRUE, c.fail)
        IN /\ request' = req
           /\ Responds(GET_billsStats(req, presets))

GetPreset ==
    \E c \in SessionConditions({"getServerSession",
                                "prisma.filter_presets.findUnique"}),
       id \in PresetIds :
        LET req == Req("GET preset", c.session, NoContext, id, Body({}), TRUE, c.fail)
        IN /\ request' = req
           /\ Responds(GET_preset(req, presets))

UpdatePreset ==
    \E c \in SessionConditions({"getServerSession",
                                "prisma.filter_presets.findUnique",
                                "prisma.filter_presets.findFirst",
                                "prisma.filter_presets.update"}),
       id \in PresetIds, body \in PresetBodies :
        LET req == Req("PATCH preset", c.session, NoContext, id, body, TRUE, c.fail)
        IN /\ request' = req
           /\ Responds(PATCH_preset(req, presets))

DeletePreset ==
    \E c \in SessionConditions({"getServerSession",
                                "prisma.filter_presets.findUnique",
                                "prisma.filter_presets.delete"}),
       id \in PresetIds :
        LET req == Req("DELETE preset", c.session, NoContext, id, Body({}), TRUE, c.fail)
        IN /\ request' = req
           /\ Responds(DELETE_preset(req, presets))

ApiNext ==
    \/ SendMessage
    \/ CreateTicket
    \/ AddComment
    \/ UpdateTicket
    \/ GetTicket
    \/ ListTickets
    \/ ListThreads
    \/ GetMessagesStats
    \/ GetCompliance
    \/ GetApprovalsStats
    \/ GetBillsStats
    \/ GetPreset
    \/ UpdatePreset
    \/ DeletePreset

ApiSpec == ApiInit /\ [][ApiNext]_vars

(***************************************************************************)
(* Calls of hashUserId                                                     *)
(***************************************************************************)
MaxIdLen == 3

\* the characters the short user ids are made of
HashChars == {"a", "k", "1", "-", "T"}

\* user ids long enough for the 32-bit value to wrap: negative values, and
\* '0TaRmAI', for which the loop ends at -2^31
LongIds ==
    {<<"a", "d", "m", "i", "n", "1">>, <<"c", "l", "i", "e", "n", "t">>,
     <<"u", "s", "e", "r", "-", "1", "7">>, <<"0", "T", "a", "R", "m", "A", "I">>}

HashIds == UNION {[1..n -> HashChars] : n \in 0..MaxIdLen} \cup LongIds

HashInit ==
    /\ processEnv = [k \in EnvKeys |-> Undefined]
    /\ windowEnv = [k \in EnvKeys |-> Undefined]
    /\ lastCall = NoCall
    /\ session = NoSession
    /\ memo = NoMemo
    /\ consumed = NoVerdict
    /\ rendered = {}
    /\ users = {}
    /\ clock = 0
    /\ request = NoRequest
    /\ response = NoResponse
    /\ presets = {}
    /\ ops = <<>>
    /\ log = <<>>
    /\ inflight = <<>>
    /\ from = "none"
    /\ location = NoLocation
    /\ pending = FALSE
    /\ hops = 0
    /\ selectedTab = "none"
    /\ roleFilter = "none"

CallHashUserId ==
    \E userId \in HashIds :
        /\ lastCall' = [userId |-> userId, fn |-> "hashUserId",
                        result |-> hashUserId(userId)]
        /\ UNCHANGED <<processEnv, windowEnv, uiVars, clientVars, navVars>>

HashNext == CallHashUserId

HashSpec == HashInit /\ [][HashNext]_vars

(***************************************************************************)
(* Properties of the rollout decision (Spec)                               *)
(***************************************************************************)
ForUserCall == lastCall.fn = "isAdminWorkBenchEnabledForUser"
Config == getAdminWorkBenchFeatureFlagConfig(Env)

\* the role check lets the caller through: no targeting, no role, or a target role
RoleTargetingPassed(userRole) ==
    \/ ~targetsNotAll(Config)
    \/ ~Truthy(userRole)
    \/ includes(targetRoles(Config), userRole)

\* the percentage gate lets the user through
PercentageGatePassed(userId) ==
    ~(/\ rolloutBelow100(Config)
      /\ atOrAboveThreshold(hashUserId(userId), Config.rolloutPercentage.val))

RolloutIs(p) == ~Config.rolloutPercentage.nan /\ Config.rolloutPercentage.val = p
RolloutIn0to100 ==
    /\ ~Config.rolloutPercentage.nan
    /\ Config.rolloutPercentage.val \in 0..100

\* C1: while the global flag is not enabled, isAdminWorkBenchEnabledForUser
\* returns false for every userId, role, percentage, target and beta list.
C1_GlobalOffIsFalse ==
    (ForUserCall /\ ~isAdminWorkBenchEnabled(Env)) => lastCall.result = FALSE

\* a call with the flag off that the role check, the percentage and the beta
\* list would all have let through
C1_Witness ==
    /\ ForUserCall
    /\ ~isAdminWorkBenchEnabled(Env)
    /\ RoleTargetingPassed(lastCall.userRole)
    /\ RolloutIs(100)
    /\ includes(Config.betaTesters, lastCall.userId)
    /\ lastCall.result = FALSE

C3_ZeroAndHundred ==
    (/\ ForUserCall
     /\ isAdminWorkBenchEnabled(Env)
     /\ Len(Config.betaTesters) = 0)
    => /\ RolloutIs(0) => lastCall.result = FALSE
       /\ (RolloutIs(100) /\ RoleTargetingPassed(lastCall.userRole))
            => lastCall.result = TRUE

\* percentage 0 and a userId whose hash is 0, the role check passed
C3_Witness ==
    /\ ForUserCall
    /\ isAdminWorkBenchEnabled(Env)
    /\ Len(Config.betaTesters) = 0
    /\ RolloutIs(0)
    /\ RoleTargetingPassed(lastCall.userRole)
    /\ hashUserId(lastCall.userId) = 0
    /\ lastCall.result = FALSE

\* C4: a supplied role outside the target roles (targetUsers not 'all') gets
\* false, also with the flag on, percentage 100 and the userId on the beta list.
C4_RoleOutsideTargetIsFalse ==
    (/\ ForUserCall
     /\ targetsNotAll(Config)
     /\ Truthy(lastCall.userRole)
     /\ ~includes(targetRoles(Config), lastCall.userRole))
    => lastCall.result = FALSE

\* targetUsers = ['ADMIN'], role CLIENT, flag on, percentage 100, userId listed
C4_Witness ==
    /\ ForUserCall
    /\ isAdminWorkBenchEnabled(Env)
    /\ Config.targetUsers = TargetArray(<< <<"A", "D", "M", "I", "N">> >>)
    /\ lastCall.userRole = <<"C", "L", "I", "E", "N", "T">>
    /\ RolloutIs(100)
    /\ includes(Config.betaTesters, lastCall.userId)
    /\ lastCall.result = FALSE

\* the value the lookup order settles on for the global flag: process.env
\* when it holds a non-empty value, else window.__ENV__, else nothing
ResolvedEnabledValue == getEnvironmentVariable(Env, WORKBENCH_ENABLED, Undefined)

\* C6: isAdminWorkBenchEnabled returns true exactly when the resolved value
\* of NEXT_PUBLIC_ADMIN_WORKBENCH_ENABLED is the string 'true', and false for
\* every other value and when the variable is set nowhere.
C6_ExactlyTrueString ==
    lastCall.fn = "isAdminWorkBenchEnabled"
    => lastCall.result = (ResolvedEnabledValue = <<"t", "r", "u", "e">>)

\* the variable holds 'TRUE' and the answer is false
C6_Witness ==
    /\ lastCall.fn = "isAdminWorkBenchEnabled"
    /\ ResolvedEnabledValue = <<"T", "R", "U", "E">>
    /\ lastCall.result = FALSE

(***************************************************************************)
(* Properties of the hook and the wrapper (HookSpec)                       *)
(***************************************************************************)
\* C7: every verdict the hook returns has enabled = globalEnabled AND userEnabled.
C7_EnabledIsConjunction ==
    memo.has =>
        memo.value.enabled = (memo.value.globalEnabled /\ memo.value.userEnabled)

\* a verdict with the flag on and the user not enabled
C7_Witness ==
    /\ memo.has
    /\ memo.value.globalEnabled
    /\ ~memo.value.userEnabled
    /\ ~memo.value.enabled

\* C8: every render of the wrapper shows exactly one of the two components,
\* AdminWorkBench exactly when the verdict's enabled is true.
C8_ExactlyOneAlternative ==
    rendered # {} =>
        /\ rendered \in {{"AdminWorkBench"}, {"ExecutiveDashboardTab"}}
        /\ ("AdminWorkBench" \in rendered) = consumed.enabled

\* the legacy tab rendered for a verdict with globalEnabled and not userEnabled
C8_Witness ==
    /\ rendered = {"ExecutiveDashboardTab"}
    /\ consumed.globalEnabled
    /\ ~consumed.userEnabled

(***************************************************************************)
(* Properties of the deprecated client endpoints (ClientSpec)              *)
(***************************************************************************)
DeprecationHeaderNames == {"Deprecation", "Sunset", "Link", "X-API-Warn"}
HeaderNames(resp) == {h[1] : h \in resp.headers}

\* C9: every response of a handler of the deprecated client endpoints,
\* whatever its status, carries the Deprecation, Sunset, Link and X-API-Warn
\* headers.
C9_EveryResponseCarriesDeprecationHeaders ==
    request.handler # "none" => DeprecationHeaderNames \subseteq HeaderNames(response)

(***************************************************************************)
(* Properties of the legacy redirects (RedirectSpec)                       *)
(***************************************************************************)
\* the target the claim gives for a legacy path
ClaimedTarget(path) ==
    IF path \in {"/admin/permissions", "/admin/roles"}
    THEN [role |-> "none", path |-> "/admin/users", tab |-> "rbac"]
    ELSE IF path = "/admin/clients"
    THEN [role |-> "CLIENT", path |-> "/admin/users", tab |-> "dashboard"]
    ELSE [role |-> "TEAM_MEMBER", path |-> "/admin/users", tab |-> "dashboard"]

DetailRequest(req) == req.handler \in {"GET client", "PATCH client", "DELETE client"}

\* the tenant context was resolved, the caller holds the permission, the
\* context carries a tenant and no persistence call of the handler throws
Served(req) ==
    /\ req.handler # "none"
    /\ ~req.ctx.throws
    /\ req.ctx.permitted
    /\ req.ctx.tenantId # NoTenant
    /\ req.failAt = 0

\* no stored record has the id, or the one that has it belongs to another
\* tenant, or does not have role CLIENT
NoSuchClient(store, id, tenantId) ==
    \A u \in store : u.id = id => (u.tenantId # tenantId \/ u.role # "CLIENT")

NotFoundResponse ==
    [status |-> 404,
     body |-> [error |-> "Client not found"],
     headers |-> {<<"Deprecation", "true">>,
                  <<"Sunset", SunsetValue>>,
                  <<"Link", "</api/admin/users>; rel=\"successor\"">>,
                  <<"X-API-Warn", "This endpoint is deprecated. Please use /api/admin/users instead.">>}]

\* C11: GET, PATCH and DELETE on /api/admin/entities/clients/[id] by a
\* permitted caller, for an id that is absent, belongs to another tenant or
\* is not of role CLIENT, answer 404 { error: 'Client not found' } with the
\* Deprecation and Sunset headers and leave the stored records unchanged.
C11_NotFoundIs404AndStoreUnchanged ==
    [][(/\ DetailRequest(request')
        /\ Served(request')
        /\ NoSuchClient(users, request'.id, request'.ctx.tenantId))
       => (/\ response' = NotFoundResponse
           /\ users' = users)]_vars

\* a DELETE by a permitted caller of tenant t1 for the client of tenant t2,
\* answered 404 with the record still stored
C11_Witness ==
    /\ request.handler = "DELETE client"
    /\ Served(request)
    /\ \E u \in users : u.id = request.id /\ u.role = "CLIENT" /\ u.tenantId # request.ctx.tenantId
    /\ response.status = 404

\* the record of role CLIENT with this id in this tenant
IsClient(u, id, tenantId) == u.id = id /\ u.tenantId = tenantId /\ u.role = "CLIENT"

\* the body asks for an email other than the client's that another record of
\* the tenant already has
EmailTaken(store, req) ==
    \E c \in store :
        /\ IsClient(c, req.id, req.ctx.tenantId)
        /\ req.body.email \notin {Missing, ""}
        /\ req.body.email # c.email
        /\ \E o \in store : o # c /\ o.tenantId = c.tenantId /\ o.email = req.body.email

\* C12: PATCH on /api/admin/entities/clients/[id] with an email that differs
\* from the client's current email and is already used by another record of
\* the same tenant answers 409 and leaves the client record unchanged.
C12_TakenEmailIs409 ==
    [][(/\ request'.handler = "PATCH client"
        /\ Served(request')
        /\ EmailTaken(users, request'))
       => (/\ response'.status = 409
           /\ users' = users)]_vars

\* a PATCH answered 409: the client keeps its email, the other record of the
\* tenant holds the one asked for
C12_Witness ==
    /\ request.handler = "PATCH client"
    /\ Served(request)
    /\ EmailTaken(users, request)
    /\ Given(request.body.name)
    /\ response.status = 409

(***************************************************************************)
(* Properties of the error mapping of the route handlers                   *)
(***************************************************************************)
ClientHandlers ==
    {"GET clients", "POST clients", "GET client", "PATCH client", "DELETE client"}
TenantHandlers == {"GET approvals stats", "GET bills stats"}
PresetHandlers == {"GET preset", "PATCH preset", "DELETE preset"}

\* the request has no valid session: no session user for a handler that reads
\* the session, no userId or tenantId in the tenant context for a handler
\* that reads the tenant context (the client handlers read tenantId only)
NoValidSession(req) ==
    IF req.handler \in ClientHandlers
    THEN ~req.ctx.throws /\ req.ctx.tenantId = NoTenant
    ELSE IF req.handler \in TenantHandlers
    THEN /\ req.fail # "requireTenantContext"
         /\ (req.ctx.userId = "undefined" \/ req.ctx.tenantId = "undefined")
    ELSE req.fail # "getServerSession" /\ NoSessionUser(req.session)

\* C13: on every route handler a request with no valid session (no session
\* user, or no userId/tenantId in the tenant context) is answered 401, and no
\* persistence or service operation is started before that response.
C13_NoValidSessionIs401 ==
    (request.handler # "none" /\ NoValidSession(request))
    => (response.status = 401 /\ ops = <<>>)

\* the caller is authenticated and lacks the permission the operation needs:
\* hasPermission(role, ...) is false on a client endpoint, the caller does
\* not own the preset on a filter-preset endpoint (GET also lets a public
\* preset through)
LacksPermission(req, store) ==
    IF req.handler \in ClientHandlers
    THEN ~req.ctx.throws /\ ~req.ctx.permitted /\ req.ctx.tenantId # NoTenant
    ELSE IF req.handler \in PresetHandlers
    THEN /\ req.fail = "none"
         /\ ~NoSessionUser(req.session)
         /\ \E p \in store :
                /\ p.id = req.id
                /\ p.createdBy # req.session.id
                /\ (req.handler = "GET preset" => ~p.isPublic)
    ELSE FALSE

\* C14: on every endpoint an authenticated caller who lacks the permission
\* the operation needs is answered 403, and 401 is returned only when there
\* is no valid session.
C14_LackingPermissionIs403 ==
    request.handler # "none" =>
        /\ LacksPermission(request, presets) => response.status = 403
        /\ response.status = 401 => NoValidSession(request)

\* an operation of the handler threw and the catch block logged the error
CaughtError == request.fail # "none" /\ log # <<>>

\* C15: when a handler hits an unexpected failure (a thrown persistence or
\* service error) the response is 500 with a fixed generic message, and the
\* body holds no text of the original error, which goes to the server log only.
C15_FailureIsGeneric500 ==
    (request.handler # "none" /\ CaughtError) =>
        /\ response.status = 500
        /\ DOMAIN response.body \subseteq {"success", "error"}
        /\ response.body.error # log[1].error.message

ValidatedHandlers == {"POST message", "POST tickets", "POST comment", "PATCH ticket"}

\* the operations that create or modify a record
WriteOps ==
    {"MessagesService.sendMessage", "TicketsService.createTicket", "TicketsService.addComment",
     "TicketsService.updateTicket", "prisma.filter_presets.update",
     "prisma.filter_presets.delete"}

\* the body is not JSON, or fails the schema of the handler
Malformed(req) ==
    \/ req.body = NotJson
    \/ CASE req.handler = "POST message" -> ~sendMessageSchema(req.body)
          [] req.handler = "POST tickets" -> ~createTicketSchema(req.body)
          [] req.handler = "POST comment" -> ~addCommentSchema(req.body)
          [] req.handler = "PATCH ticket" -> ~updateTicketSchema(req.body)
          [] OTHER -> FALSE

\* an authenticated caller sent a malformed body to a handler that reads one
\* and reached the point where the handler reads it
MalformedInput(req, store) ==
    /\ req.fail = "none"
    /\ ~NoSessionUser(req.session)
    /\ Malformed(req)
    /\ \/ req.handler \in ValidatedHandlers
       \/ /\ req.handler = "PATCH preset"
          /\ \E p \in store : p.id = req.id /\ p.createdBy = req.session.id

\* C16: a request by an authenticated caller whose payload is malformed (not
\* valid JSON, or failing the schema or required-field check) is answered
\* 400 with validation detail, never 500, and no record is created or
\* modified.
C16_MalformedInputIs400 ==
    (request.handler \in ValidatedHandlers \cup {"PATCH preset"}
        /\ MalformedInput(request, presets))
    => /\ response.status = 400
       /\ "details" \in DOMAIN response.body
       /\ \A i \in 1..Len(ops) : ops[i] \notin WriteOps

(***************************************************************************)
(* Properties of the configuration lookup (Spec)                           *)
(***************************************************************************)
\* the environment with the contents of process.env and window.__ENV__
\* exchanged
Mirrored(env) == [process |-> env.window, window |-> env.process]

\* the key is set in exactly one of the two sources
StoredInOneSource(env, key) ==
    (env.process[key] = Undefined) # (env.window[key] = Undefined)

\* C17: getEnvironmentVariable(key, default) returns the value of key in
\* process.env when one is present, otherwise the value in window.__ENV__
\* when one is present, otherwise default; and it gives the same answer for
\* the same stored value whether the value sits in process.env or in
\* window.__ENV__.
C17_LookupOrderSameInBothSources ==
    lastCall.fn = "getEnvironmentVariable" =>
        /\ lastCall.result =
              (IF processEnv[lastCall.key] # Undefined THEN processEnv[lastCall.key]
               ELSE IF windowEnv[lastCall.key] # Undefined THEN windowEnv[lastCall.key]
               ELSE lastCall.defaultValue)
        /\ StoredInOneSource(Env, lastCall.key) =>
              lastCall.result =
                getEnvironmentVariable(Mirrored(Env), lastCall.key, lastCall.defaultValue)

\* the string with a space put before and after it
Padded(str) == <<" ">> \o str \o <<" ">>

\* the roles of a parsed target: the elements of a role list
RoleSet(target) == {target.arr[i] : i \in 1..Len(target.arr)}

\* the entries of the comma-separated string, trimmed and in upper case
NormalisedEntries(str) == {toUpperCase(trim(split(str)[i])) : i \in 1..Len(split(str))}

\* the target-users string the configuration is parsed from
TargetUsersInput == getEnvironmentVariable(Env, TARGET_USERS, <<"a", "l", "l">>)

\* C18: getAdminWorkBenchFeatureFlagConfig parses the target-users string
\* into 'all' (also when unset), 'beta' or a role list; every element of a
\* role list is an entry of the comma-separated input, trimmed and in upper
\* case, so the parsed role set is the same for inputs that differ only in
\* letter case or surrounding spaces.
C18_RoleListIsNormalisedInput ==
    lastCall.fn = "getAdminWorkBenchFeatureFlagConfig" =>
        LET parsed == lastCall.result.targetUsers
        IN /\ (processEnv[TARGET_USERS] = Undefined /\ windowEnv[TARGET_USERS] = Undefined)
                => parsed = TargetString(<<"a", "l", "l">>)
           /\ ~parsed.isArray => parsed.str \in {<<"a", "l", "l">>, <<"b", "e", "t", "a">>}
           /\ parsed.isArray =>
                /\ RoleSet(parsed) \subseteq NormalisedEntries(TargetUsersInput)
                /\ parseTargetUsers(toUpperCase(TargetUsersInput)).isArray
                /\ RoleSet(parseTargetUsers(toUpperCase(TargetUsersInput))) = RoleSet(parsed)
                /\ parseTargetUsers(Padded(TargetUsersInput)).isArray
                /\ RoleSet(parseTargetUsers(Padded(TargetUsersInput))) = RoleSet(parsed)

\* C19: for every value of the rollout-percentage variable the
\* rolloutPercentage of the returned config is an integer between 0 and 100
\* inclusive, and it is 100 when the variable is unset.
C19_RolloutPercentageIn0to100 ==
    lastCall.fn = "getAdminWorkBenchFeatureFlagConfig" =>
        /\ ~lastCall.result.rolloutPercentage.nan
        /\ lastCall.result.rolloutPercentage.val \in 0..100
        /\ (processEnv[ROLLOUT_PERCENTAGE] = Undefined /\ windowEnv[ROLLOUT_PERCENTAGE] = Undefined)
             => lastCall.result.rolloutPercentage.val = 100

(***************************************************************************)
(* Properties of the memoised verdict (HookSpec)                           *)
(***************************************************************************)
\* the dependency list of the render under the current session
CurrentDeps == <<session.id, session.role>>

\* a step that is a render through the real hook: session and environment
\* stay, the wrapper gets the verdict of the memo cell
HookRender ==
    /\ UNCHANGED <<session, processEnv, windowEnv>>
    /\ lastCall'.fn = "useAdminWorkBenchFeature"
    /\ consumed' = memo'.value

\* C20: across re-renders the verdict of useAdminWorkBenchFeature is
\* recomputed exactly when the session's user id or role changed since the
\* previous render; on a re-render where both are unchanged it is the value
\* of the previous render, whatever else changed in between (the environment
\* flag values included).
C20_RecomputedExactlyOnIdentityChange ==
    [][(HookRender /\ memo.has) =>
          IF memo.deps = CurrentDeps
          THEN memo' = memo
          ELSE /\ memo'.deps = CurrentDeps
               /\ memo'.value = computeVerdict(Env, session)]_vars

\* a re-render under an environment set after the previous render: identity
\* unchanged, the verdict kept although the global flag now reads otherwise
C20_Witness ==
    /\ lastCall.fn = "useAdminWorkBenchFeature"
    /\ memo.has
    /\ memo.deps = CurrentDeps
    /\ consumed = memo.value
    /\ memo.value.globalEnabled # isAdminWorkBenchEnabled(Env)

\* C21: nothing computed from the environment is kept: the verdict the
\* wrapper gets on a render is the one derived from the environment values
\* and the session of that render, also after the values changed.
C21_VerdictFollowsEnvironment ==
    [][HookRender => consumed' = computeVerdict(Env, session)]_vars

(***************************************************************************)
(* Properties of the percentage gate and the hash (Spec, HashSpec)         *)
(***************************************************************************)
\* C22: flag on, role check passed, no beta list, the percentage an integer
\* p: for p < 100 the result is true exactly when hashUserId(userId) mod 100
\* is below p; for p >= 100 the result is true.
C22_GateIsHashBelowPercentage ==
    (/\ ForUserCall
     /\ isAdminWorkBenchEnabled(Env)
     /\ RoleTargetingPassed(lastCall.userRole)
     /\ Len(Config.betaTesters) = 0
     /\ ~Config.rolloutPercentage.nan)
    => IF Config.rolloutPercentage.val < 100
       THEN lastCall.result = (hashUserId(lastCall.userId) % 100 < Config.rolloutPercentage.val)
       ELSE lastCall.result = TRUE

\* h * 31 + c wrapped to 32 bits, on the two halves of h
Times31Plus(h, c) ==
    LET l == h.lo * 31 + c
    IN [hi |-> (h.hi * 31 + l \div Word) % Word, lo |-> l % Word]

\* the fold of h := h * 31 + charCode over the characters, from h
RECURSIVE Fold31(_, _)
Fold31(str, h) ==
    IF str = <<>> THEN h ELSE Fold31(Tail(str), Times31Plus(h, CharCode(Head(str))))

\* the magnitude of a signed 32-bit value as an unsigned one (2^31 for -2^31)
Magnitude(h) ==
    IF h.hi < 32768 THEN h
    ELSE [hi |-> (Word - h.hi - (IF h.lo = 0 THEN 0 ELSE 1)) % Word,
          lo |-> (Word - h.lo) % Word]

\* abs(h) mod 100
AbsOfFoldMod100(str) ==
    LET m == Magnitude(Fold31(str, Int32Zero))
    IN ((m.hi % 100) * 36 + (m.lo % 100)) % 100

MinInt32 == [hi |-> 32768, lo |-> 0]

\* C23: hashUserId(userId) is abs(h) mod 100 for the 32-bit fold h of
\* h * 31 + charCode from 0; it is an integer of 0..99 for every userId, also
\* when h is -2^31, and 0 for the empty string.
C23_HashIsAbsOfFoldMod100 ==
    lastCall.fn = "hashUserId" =>
        /\ lastCall.result = AbsOfFoldMod100(lastCall.userId)
        /\ lastCall.result \in 0..99
        /\ lastCall.userId = <<>> => lastCall.result = 0

\* a user id whose fold ends at -2^31: the hash is 2^31 mod 100 = 48
C23_Witness ==
    /\ lastCall.fn = "hashUserId"
    /\ Fold31(lastCall.userId, Int32Zero) = MinInt32
    /\ hashLoop(lastCall.userId, Int32Zero) = MinInt32
    /\ lastCall.result = 48

\* the environment with the rollout percentage of process.env set to percentage
EnvAt(env, percentage) ==
    [env EXCEPT !.process[ROLLOUT_PERCENTAGE] = percentage]

\* C24: when the rollout-percentage variable does not parse as an integer,
\* isAdminWorkBenchEnabledForUser returns what it returns with the
\* percentage at 100, for every userId and role.
C24_UnparsableIsHundred ==
    (ForUserCall /\ Config.rolloutPercentage.nan) =>
        lastCall.result =
            isAdminWorkBenchEnabledForUser(EnvAt(Env, <<"1", "0", "0">>),
                                           lastCall.userId, lastCall.userRole)

\* the percentage reads 'abc', the flag is on, and a user whose hash is 97
\* gets the feature
C24_Witness ==
    /\ ForUserCall
    /\ processEnv[ROLLOUT_PERCENTAGE] = <<"a", "b", "c">>
    /\ Config.rolloutPercentage.nan
    /\ isAdminWorkBenchEnabled(Env)
    /\ hashUserId(lastCall.userId) = 97
    /\ lastCall.result = TRUE

(***************************************************************************)
(* Properties of role targeting (Spec)                                     *)
(***************************************************************************)
\* the environment with the target users of process.env set to target
EnvTargeting(env, target) ==
    [env EXCEPT !.process[TARGET_USERS] = target]

\* C25: a call without a role (undefined or the empty string) returns what
\* it returns under targetUsers = 'all' with the rest of the configuration
\* unchanged.
C25_NoRoleSkipsTargeting ==
    (ForUserCall /\ ~Truthy(lastCall.userRole)) =>
        lastCall.result =
            isAdminWorkBenchEnabledForUser(EnvTargeting(Env, <<"a", "l", "l">>),
                                           lastCall.userId, lastCall.userRole)

\* the empty string as role under targetUsers = ['ADMIN']: enabled
C25_Witness ==
    /\ ForUserCall
    /\ lastCall.userRole = <<>>
    /\ Config.targetUsers = TargetArray(<< <<"A", "D", "M", "I", "N">> >>)
    /\ lastCall.result = TRUE

(***************************************************************************)
(* Monotonicity of the rollout (Spec)                                      *)
(***************************************************************************)
\* percentages to compare a call with, as the variable would hold them
Percentages ==
    {<<"0">>, <<"1">>, <<"5">>, <<"7">>, <<"1", "0">>, <<"1", "5">>, <<"5", "0">>,
     <<"5", "1">>, <<"5", "5">>, <<"5", "7">>, <<"7", "5">>, <<"1", "0", "0">>}

\* C26: a call that returns true at percentage p returns true at every
\* percentage p' with p <= p' <= 100, the flag, the target users, the beta
\* list, the userId and the role being the same.
C26_MonotoneInPercentage ==
    (/\ ForUserCall
     /\ ~Config.rolloutPercentage.nan
     /\ lastCall.result = TRUE)
    => \A q \in Percentages :
          (/\ parseInt(q).val >= Config.rolloutPercentage.val
           /\ parseInt(q).val <= 100)
          => isAdminWorkBenchEnabledForUser(EnvAt(Env, q), lastCall.userId,
                                            lastCall.userRole) = TRUE

\* a user whose hash is 7 has the feature at percentage 7
C26_Witness ==
    /\ ForUserCall
    /\ RolloutIs(7)
    /\ hashUserId(lastCall.userId) = 7
    /\ lastCall.result = TRUE

\* C27: with targetUsers = 'beta' every caller who supplies a role other
\* than the exact string 'beta' gets false, also with the userId on the
\* beta-tester list, the flag on and the percentage at 100.
C27_BetaIsARoleName ==
    (/\ ForUserCall
     /\ Config.targetUsers = TargetString(<<"b", "e", "t", "a">>)
     /\ Truthy(lastCall.userRole)
     /\ lastCall.userRole # <<"b", "e", "t", "a">>)
    => lastCall.result = FALSE

\* targetUsers = 'beta', role ADMIN, flag on, percentage 100, userId listed
C27_Witness ==
    /\ ForUserCall
    /\ isAdminWorkBenchEnabled(Env)
    /\ processEnv[TARGET_USERS] = <<"b", "e", "t", "a">>
    /\ lastCall.userRole = <<"A", "D", "M", "I", "N">>
    /\ RolloutIs(100)
    /\ includes(Config.betaTesters, lastCall.userId)
    /\ lastCall.result = FALSE

(***************************************************************************)
(* Properties of concurrent requests for one email (RaceSpec)              *)
(***************************************************************************)
Finished(r) == inflight[r].pc = "done"

\* the request asked the store for an email: a POST with name and email, a
\* PATCH of an existing client with an email other than the client's
TriedEmail(r) ==
    \/ /\ inflight[r].handler = "POST clients"
       /\ Given(inflight[r].body.name) /\ Given(inflight[r].body.email)
    \/ /\ inflight[r].handler = "PATCH client"
       /\ \E c \in inflight[r].client : Given(inflight[r].body.email)
                                        /\ inflight[r].body.email # c.email

Obtained(r) == inflight[r].response.status \in {200, 201}

\* C28: whatever the interleaving of the POST and PATCH requests of a
\* tenant, no two records hold the same (tenantId, email), and every request
\* that asked for an email and did not get it is answered 409.
C28_LoserIsAnswered409 ==
    /\ \A u, v \in users : (u.tenantId = v.tenantId /\ u.email = v.email) => u = v
    /\ \A r \in Requests :
          (Finished(r) /\ TriedEmail(r) /\ ~Obtained(r))
          => inflight[r].response.status = 409

(***************************************************************************)
(* Tenant and role isolation of the client endpoints (ClientSpec)          *)
(***************************************************************************)
\* a record the caller of req has no business with: of another tenant, or
\* not a client
Foreign(u, req) == u.tenantId # req.ctx.tenantId \/ u.role # "CLIENT"

\* the records a response hands to the caller
Returned(req, resp) ==
    IF req.handler = "GET clients" /\ resp.status = 200
    THEN {resp.body.clients[i] : i \in 1..Len(resp.body.clients)}
    ELSE IF \/ req.handler \in {"GET client", "PATCH client"} /\ resp.status = 200
            \/ req.handler = "POST clients" /\ resp.status = 201
    THEN {resp.body}
    ELSE {}

\* what PATCH may make of record u: name and email as the body gives them,
\* a field kept when the body omits it or gives it empty
Patched(u, body) ==
    [id |-> u.id, role |-> u.role, name |-> IF body.name = Missing \/ body.name = "" THEN u.name ELSE body.name, email |-> IF body.email = Missing \/ body.email = "" THEN u.email ELSE body.email,
     createdAt |-> u.createdAt,
     tenantId |-> u.tenantId]

\* C29: in every step of a client endpoint, a record created by POST has
\* role CLIENT and the caller's tenantId; PATCH replaces the addressed
\* record by one that differs in name and email only, a field omitted or
\* empty in the body kept; GET changes nothing; and no record of another
\* tenant or of another role is returned, modified or deleted.
C29_TenantAndRoleIsolation ==
    [][LET req == request'
           resp == response'
       IN /\ \A u \in users : Foreign(u, req) => u \in users'
          /\ \A v \in Returned(req, resp) :
                \E u \in users \cup users' : ~Foreign(u, req) /\ Selected(u) = v
          /\ req.handler = "POST clients" =>
                /\ users \subseteq users'
                /\ \A v \in users' \ users :
                      /\ v.role = "CLIENT"
                      /\ v.tenantId = req.ctx.tenantId
                      /\ v.name = req.body.name /\ v.email = req.body.email
          /\ req.handler = "PATCH client" =>
                \/ users' = users
                \/ \E u \in users :
                      /\ u.id = req.id
                      /\ users' = (users \ {u}) \cup {Patched(u, req.body)}
          /\ req.handler = "DELETE client" =>
                \A u \in users \ users' : u.id = req.id /\ users' = users \ {u}
          /\ req.handler \in {"GET clients", "GET client"} => users' = users]_vars

\* a PATCH that gave a client a new email and no name, a client of the other
\* tenant and an administrator being in the store
C29_Witness ==
    /\ request.handler = "PATCH client"
    /\ response.status = 200
    /\ request.body.name = Missing
    /\ request.body.email = "e2"
    /\ \E u \in users : u.id = request.id /\ u.email = "e2" /\ u.name = "n2"
    /\ \E u \in users : u.tenantId # request.ctx.tenantId
    /\ \E u \in users : u.tenantId = request.ctx.tenantId /\ u.role = "ADMIN"

(***************************************************************************)
(* Ownership of the filter presets (ApiSpec)                               *)
(***************************************************************************)
\* the caller of req is signed in and is not the creator of the preset the
\* request addresses, the session and the preset having been read
NotTheCreator(req, store) ==
    /\ ~NoSessionUser(req.session)
    /\ req.fail \notin {"getServerSession", "prisma.filter_presets.findUnique"}
    /\ \E p \in findUniquePreset(store, req.id) : p.createdBy # req.session.id

\* C30: a step of GET, PATCH or DELETE on a filter preset changes the
\* presets only when the session user is the creator of the addressed
\* preset, and then only that preset; PATCH and DELETE by any other signed-in
\* caller are answered 403; a preset that is not public is returned to its
\* creator only.
C30_PresetOwnership ==
    [][request'.handler \in PresetHandlers =>
          /\ presets' # presets =>
                \E p \in findUniquePreset(presets, request'.id) :
                    /\ ~NoSessionUser(request'.session)
                    /\ p.createdBy = request'.session.id
                    /\ presets \ {p} \subseteq presets'
                    /\ presets' \ presets \subseteq {q \in presets' : q.id = p.id}
          /\ (request'.handler \in {"PATCH preset", "DELETE preset"}
              /\ NotTheCreator(request', presets))
             => response'.status = 403 /\ presets' = presets
          /\ (request'.handler = "GET preset" /\ response'.status = 200
              /\ ~response'.body.preset.isPublic)
             => response'.body.preset.createdBy = request'.session.id]_vars

\* user u2 asked to delete a preset of user u1: 403, the preset still there
C30_Witness ==
    /\ request.handler = "DELETE preset"
    /\ request.session.id = "u2"
    /\ response.status = 403
    /\ \E p \in presets : p.id = request.id /\ p.createdBy = "u1"

====
